---- MODULE Spec2Model ----
(***************************************************************************)
(* A model of the conflict-safe file-operation dispatcher of ydmenu.py:    *)
(* the unique-name generators, the conflict resolver (rename, then the     *)
(* rename_back closure), the readiness gate, the command routing, the      *)
(* one-by-one executor and the batch executors, over a file system that    *)
(* holds the managed tree (synced root, stream directory) and two          *)
(* directories outside it.                                                 *)
(*                                                                         *)
(* A path is the sequence of its components below YA_DISK_ROOT; a file     *)
(* name is the sequence of its characters, so that Path.stem, Path.suffix  *)
(* and the "_<index>" suffix are computed as the code computes them.  A    *)
(* command name is the sequence of its words, so that str.startswith is a  *)
(* prefix test.                                                            *)
(***************************************************************************)
EXTENDS Naturals, Sequences, FiniteSets, TLC

(***************************************************************************)
(* Bounds of the model.                                                    *)
(***************************************************************************)
\* files present when a dispatch starts (besides the fixed directories)
MaxFiles == 3
\* paths handed to one dispatch
MaxItems == 2
\* paths handed to each of two concurrent dispatches
MaxConcItems == 1
\* times the unit harness invokes one rename_back closure
MaxRestoreCalls == 2

(***************************************************************************)
(* Sequences: prefix, last index of an element.                            *)
(***************************************************************************)
IsPrefix(pre, s) ==
    /\ Len(pre) <= Len(s)
    /\ SubSeq(s, 1, Len(pre)) = pre

\* str.rfind(ch), 1-based; 0 when ch does not occur
RFind(s, ch) ==
    LET hits == {i \in 1..Len(s) : s[i] = ch}
    IN  IF hits = {} THEN 0 ELSE CHOOSE i \in hits : \A j \in hits : j <= i

DropFirst(s, n) == SubSeq(s, n + 1, Len(s))

(***************************************************************************)
(* File names.                                                             *)
(***************************************************************************)
Digits == <<"0", "1", "2", "3", "4", "5", "6", "7", "8", "9">>

RECURSIVE IntToStr(_)
IntToStr(k) ==
    IF k < 10 THEN <<Digits[k + 1]>>
    ELSE IntToStr(k \div 10) \o <<Digits[(k % 10) + 1]>>

\* pathlib: the suffix starts at the last dot, unless that dot is the first
\* or the last character of the name
PathSuffix(name) ==
    LET i == RFind(name, ".")
    IN  IF 1 < i /\ i < Len(name) THEN SubSeq(name, i, Len(name)) ELSE <<>>

PathStem(name) ==
    LET i == RFind(name, ".")
    IN  IF 1 < i /\ i < Len(name) THEN SubSeq(name, 1, i - 1) ELSE name

StartsWithDot(name) == Len(name) > 0 /\ name[1] = "."

\* f"{name_part}_{index}{ext_part}"
Suffixed(stem, k, ext) == stem \o <<"_">> \o IntToStr(k) \o ext

NmDoc == <<"c", ".", "t">>
NmDoc1 == <<"c", "_", "1", ".", "t">>
NmDoc2 == <<"c", "_", "2", ".", "t">>
NmEnv == <<".", "e">>
NmEnvCfg == <<".", "e", ".", "t">>
NmDir == <<"d">>

(***************************************************************************)
(* Paths and the managed tree.                                             *)
(***************************************************************************)
\* the names of the fixed directories are never split: one token each
NmYaMedia == <<"yaMedia">>
NmMedia == <<"Media">>
NmHome == <<"home">>
NmWork == <<"work">>

Root == <<>>
YaDisk == <<NmYaMedia>>
StreamDir == <<NmYaMedia, NmMedia>>
Home == <<NmHome>>
Work == <<NmWork>>

Join(dir, name) == Append(dir, name)
BaseName(p) == IF p = <<>> THEN <<>> ELSE p[Len(p)]
DirName(p) == IF p = <<>> THEN <<>> ELSE SubSeq(p, 1, Len(p) - 1)

(***************************************************************************)
(* The file system: a function from the existing paths to their entries.   *)
(* An entry is [kind, data]; data names where the content was first seen,  *)
(* so a copy or a move carries the content with it.                        *)
(***************************************************************************)
\* a path given with a trailing separator ends in an empty component; the
\* system resolves it to the entry before the separator, which must be a
\* directory
Resolved(p) == IF p # <<>> /\ p[Len(p)] = <<>> THEN DirName(p) ELSE p

Exists(f, p) ==
    IF Resolved(p) = p THEN p \in DOMAIN f
    ELSE Resolved(p) \in DOMAIN f /\ f[Resolved(p)].kind = "dir"
IsDir(f, p) == Exists(f, p) /\ f[Resolved(p)].kind = "dir"
IsFile(f, p) == p \in DOMAIN f /\ f[p].kind = "file"
Subtree(f, p) == {q \in DOMAIN f : IsPrefix(p, q)}
Rebase(q, from, to) == to \o DropFirst(q, Len(from))

Fail(f) == [ok |-> FALSE, fs |-> f]
Succeed(f) == [ok |-> TRUE, fs |-> f]

\* the tree at src now at dst (what was at dst is replaced); with keep, src stays
Transplant(f, src, dst, keep) ==
    LET sub == Subtree(f, src)
        gone == (IF keep THEN {} ELSE sub) \cup Subtree(f, dst)
        new == {Rebase(q, src, dst) : q \in sub}
    IN  [q \in ((DOMAIN f) \ gone) \cup new |->
            IF q \in new THEN f[Rebase(q, dst, src)] ELSE f[q]]

\* os.rename on one POSIX file system
OsRename(f, given, dst) ==
    LET src == Resolved(given)
    IN  IF ~Exists(f, given) THEN Fail(f)
        ELSE IF src = dst THEN Succeed(f)
        ELSE IF ~IsDir(f, DirName(dst)) THEN Fail(f)
        ELSE IF IsPrefix(src, dst) THEN Fail(f)
        ELSE IF Exists(f, dst) /\ f[src].kind # f[dst].kind THEN Fail(f)
        ELSE IF IsDir(f, dst) /\ Subtree(f, dst) # {dst} THEN Fail(f)
        ELSE Succeed(Transplant(f, src, dst, FALSE))

\* shutil.move: into dst when dst is a directory (refusing an existing entry
\* there), else os.rename onto dst, which replaces an existing file.  Where
\* os.rename fails here, the copy fallback fails for the same reason.
ShutilMove(f, given, dst) ==
    LET src == Resolved(given)
    IN  IF IsDir(f, dst)
        THEN IF src = dst THEN (IF Exists(f, given) THEN Succeed(f) ELSE Fail(f))
             ELSE IF Exists(f, Join(dst, BaseName(src))) THEN Fail(f)
             ELSE OsRename(f, given, Join(dst, BaseName(src)))
        ELSE OsRename(f, given, dst)

\* shutil.copy2: a file only; into dst when dst is a directory; an existing
\* file at the destination is overwritten, the same file is refused
ShutilCopy2(f, src, dst) ==
    LET real == IF IsDir(f, dst) THEN Join(dst, BaseName(src)) ELSE dst
    IN  IF ~IsFile(f, src) THEN Fail(f)
        ELSE IF real = src THEN Fail(f)
        ELSE IF IsDir(f, real) THEN Fail(f)
        ELSE IF ~IsDir(f, DirName(real)) THEN Fail(f)
        ELSE Succeed(Transplant(f, src, real, TRUE))

\* shutil.copytree: the destination must not exist
ShutilCopytree(f, src, dst) ==
    IF ~IsDir(f, src) THEN Fail(f)
    ELSE IF Exists(f, dst) THEN Fail(f)
    ELSE IF ~IsDir(f, DirName(dst)) THEN Fail(f)
    ELSE IF IsPrefix(src, dst) THEN Fail(f)
    ELSE Succeed(Transplant(f, src, dst, TRUE))

(***************************************************************************)
(* Command names (Constants, the command categories).                      *)
(***************************************************************************)
PublishToYandexCom == <<"Publish", "To", "Yandex", "Com">>
PublishToYandex == <<"Publish", "To", "Yandex">>
UnpublishFromYandex == <<"Unpublish", "From", "Yandex">>
UnpublishAllCopy == <<"Unpublish", "All", "Copy">>
FileAddToStream == <<"File", "Add", "To", "Stream">>
FileMoveToStream == <<"File", "Move", "To", "Stream">>
ClipboardPublishToCom == <<"Clipboard", "Publish", "To", "Com">>
ClipboardPublish == <<"Clipboard", "Publish">>
ClipboardToStream == <<"Clipboard", "To", "Stream">>
\* two names of no table; the first still starts with "File"
FileDelete == <<"File", "Delete">>
OpenInBrowser == <<"Open", "In", "Browser">>

ONE_BY_ONE_COMMANDS ==
    {PublishToYandexCom, PublishToYandex, UnpublishFromYandex, UnpublishAllCopy}
ALL_AT_ONCE_COMMANDS == {FileAddToStream, FileMoveToStream}
CLIPBOARD_COMMANDS == {ClipboardPublishToCom, ClipboardPublish, ClipboardToStream}
UnknownCommands == {FileDelete, OpenInBrowser}
PublishCommands == {PublishToYandexCom, PublishToYandex}

(***************************************************************************)
(* The conflict resolver and the unique-name generators.                   *)
(***************************************************************************)
\* _parse_file_info
ParseFileInfo(p) ==
    [path |-> p,
     name |-> BaseName(p),
     dir |-> DirName(p),
     outside |-> IF p = <<>> THEN TRUE
                 ELSE ~(Len(p) > Len(YaDisk) /\ IsPrefix(YaDisk, p))]

\* has_conflict of _should_rename_file
HasConflict(f, name) ==
    Exists(f, Join(StreamDir, name)) \/ Exists(f, Join(YaDisk, name))

NeedsRenameAnyPublish(outside, command) ==
    \/ IsPrefix(<<"Publish", "To", "Yandex">>, command)
    \/ IsPrefix(<<"File">>, command)

\* needs_rename of _should_rename_file
NeedsRename(outside, command) ==
    \/ (outside /\ IsPrefix(<<"Publish", "To", "Yandex">>, command))
    \/ IsPrefix(<<"File">>, command)

ShouldRenameFileAnyName(f, path, name, outside, command) ==
    IF path = <<>> \/ ~Exists(f, path) THEN FALSE
    ELSE NeedsRename(outside, command)

\* _should_rename_file
ShouldRenameFile(f, path, name, outside, command) ==
    IF path = <<>> \/ ~Exists(f, path) THEN FALSE
    ELSE HasConflict(f, name) /\ NeedsRename(outside, command)

NameTakenTwoDirs(f, dir, name) ==
    \/ Exists(f, Join(StreamDir, name))
    \/ Exists(f, Join(YaDisk, name))

\* the collision test of both generators: the stream directory, the synced
\* root and the given directory
NameTaken(f, dir, name) ==
    \/ Exists(f, Join(StreamDir, name))
    \/ Exists(f, Join(YaDisk, name))
    \/ Exists(f, Join(dir, name))

RECURSIVE FirstFreeIndex(_, _, _, _, _)
FirstFreeIndex(f, dir, stem, ext, k) ==
    IF ~NameTaken(f, dir, Suffixed(stem, k, ext)) THEN k
    ELSE FirstFreeIndex(f, dir, stem, ext, k + 1)

\* Path(file_path).name: pathlib drops a trailing separator
PathLibName(p) == BaseName(Resolved(p))

\* the name parts both generators use: a name with a leading dot is all stem
NamePart(name) == IF StartsWithDot(name) THEN name ELSE PathStem(name)
ExtPart(name) == IF StartsWithDot(name) THEN <<>> ELSE PathSuffix(name)

\* _generate_unique_file_name probing from index 2
GenerateUniqueFileNameFromTwo(f, path, name, dir) ==
    LET stem == IF StartsWithDot(name) THEN name ELSE PathStem(PathLibName(path))
        ext == IF StartsWithDot(name) THEN <<>> ELSE PathSuffix(PathLibName(path))
        k == FirstFreeIndex(f, dir, stem, ext, 2)
    IN  [name |-> Suffixed(stem, k, ext),
         path |-> Join(dir, Suffixed(stem, k, ext))]

\* _generate_unique_file_name: the index starts at 1
GenerateUniqueFileName(f, path, name, dir) ==
    LET stem == IF StartsWithDot(name) THEN name ELSE PathStem(PathLibName(path))
        ext == IF StartsWithDot(name) THEN <<>> ELSE PathSuffix(PathLibName(path))
        k == FirstFreeIndex(f, dir, stem, ext, 1)
    IN  [name |-> Suffixed(stem, k, ext),
         path |-> Join(dir, Suffixed(stem, k, ext))]

\* generate_unique_filename: index 0 is the name as given
GenerateUniqueFilename(f, dir, name) ==
    IF ~NameTaken(f, dir, name) THEN name
    ELSE Suffixed(NamePart(name), FirstFreeIndex(f, dir, NamePart(name), ExtPart(name), 1),
                  ExtPart(name))

RenameFileIfNeededByCopy(f, path, name, dir, outside, command) ==
    IF ~ShouldRenameFile(f, path, name, outside, command)
    THEN [ok |-> TRUE, fs |-> f, path |-> path, name |-> name, changed |-> FALSE]
    ELSE LET new == GenerateUniqueFileName(f, path, name, dir)
             cp == ShutilCopy2(f, path, new.path)
         IN  [ok |-> cp.ok, fs |-> cp.fs, path |-> new.path, name |-> new.name,
              changed |-> TRUE]

\* _rename_file_if_needed; ok is FALSE when shutil.move raised
RenameFileIfNeeded(f, path, name, dir, outside, command) ==
    IF ~ShouldRenameFile(f, path, name, outside, command)
    THEN [ok |-> TRUE, fs |-> f, path |-> path, name |-> name, changed |-> FALSE]
    ELSE LET new == GenerateUniqueFileName(f, path, name, dir)
             mv == ShutilMove(f, path, new.path)
         IN  [ok |-> mv.ok, fs |-> mv.fs, path |-> new.path, name |-> new.name,
              changed |-> TRUE]

RenameBackByCopy(f, changed, src, orig) ==
    IF changed /\ Exists(f, src) THEN ShutilCopy2(f, src, orig) ELSE Succeed(f)

\* the closure of _create_rename_back_function, applied to file system f
RenameBack(f, changed, src, orig) ==
    IF changed /\ Exists(f, src) THEN ShutilMove(f, src, orig) ELSE Succeed(f)

\* a closure that was never created, and lambda: None
NoTicket == [changed |-> FALSE, src |-> <<>>, orig |-> <<>>]

(***************************************************************************)
(* State.                                                                  *)
(***************************************************************************)
VARIABLES
    fs,        \* the file system
    fs0,       \* the file system when the dispatch started (never changes)
    clip,      \* the clipboard text: a sequence of lines
    disp,      \* the dispatcher invocations: disp[p] is the state of main_impl
    unit       \* the unit harness: the calls made so far and what they returned

(***************************************************************************)
(* Initial file systems: the fixed directories, and up to MaxFiles entries *)
(* drawn from a set of candidates.                                         *)
(***************************************************************************)
SkeletonDirs == {Root, YaDisk, StreamDir, Home, Work}

DirCandidates == {Join(Home, NmDir), Join(StreamDir, NmDir)}

MakeFs(S) ==
    [q \in SkeletonDirs \cup S |->
        [kind |-> IF q \in SkeletonDirs \cup DirCandidates THEN "dir" ELSE "file",
         data |-> q]]

BoundedSubsets(C, n) == {S \in SUBSET C : Cardinality(S) <= n}

UnitCandidates ==
    {Join(d, n) : d \in {StreamDir, YaDisk, Home}, n \in {NmDoc, NmDoc1, NmEnv}}
        \cup {Join(StreamDir, NmEnvCfg), Join(Home, NmEnvCfg)}

UnitPaths ==
    {Join(d, n) : d \in {StreamDir, YaDisk, Home}, n \in {NmDoc, NmEnv}}
        \cup {Join(Home, NmEnvCfg)}

UnitDirs == {Home, Work, StreamDir}

\* the commands whose handlers call the resolver
UnitCommands == ONE_BY_ONE_COMMANDS \cup ALL_AT_ONCE_COMMANDS

(***************************************************************************)
(* One dispatcher invocation (main_impl).                                  *)
(***************************************************************************)
Procs == {1, 2}

\* what the clipboard holds before a dispatch
PriorClip == <<[dom |-> "text", of |-> <<>>]>>

ProcStart(command, ps) ==
    [pc |-> "start",       \* where main_impl is
     cmd |-> command,      \* command_type
     paths |-> ps,         \* file_paths, filtered
     idx |-> 1,            \* the item the current loop is at
     tk |-> NoTicket,      \* the current item after _rename_file_if_needed
     items |-> <<>>,       \* processed_items
     errors |-> <<>>,      \* errors of the executor's own loop: the keys
     xerrors |-> <<>>,     \* errors of the batch handler's loop: the keys
     count |-> 0,          \* processed_count, len(copied_items), len(moved_items)
     links |-> <<>>,       \* collected_links
     idle |-> FALSE,       \* wait_for_ready has seen status idle
     writes |-> 0,         \* calls of _copy_to_clipboard that wrote
     acts |-> <<>>,        \* per item taken up: its path, how it ended, rename_back calls
     tries |-> <<>>,       \* per batch item: how its copy or move was attempted
     notes |-> <<>>,       \* severities of the notifications shown
     syncs |-> 0,          \* yandex-disk sync calls
     exitCode |-> 0,       \* the process exit status
     cause |-> "none"]     \* what ended the process early

ProcIdle == [ProcStart(<<>>, <<>>) EXCEPT !.pc = "idle"]

Ended(d) == d.pc \in {"done", "exited", "crashed"}

\* show_error_and_exit: an error notification, then sys.exit(1)
ErrorExit(d, why) ==
    [d EXCEPT !.pc = "exited", !.notes = Append(@, "error"),
              !.exitCode = 1, !.cause = why]

\* an exception no handler catches: the interpreter ends with status 1
Crash(d, why) == [d EXCEPT !.pc = "crashed", !.exitCode = 1, !.cause = why]

Note(d, severity) == [d EXCEPT !.notes = Append(@, severity)]

(***************************************************************************)
(* The unit harness: the resolver, its closure and the generators called   *)
(* directly, as the unit tests call them, on any initial file system.      *)
(***************************************************************************)
UnitOff == [stage |-> "off"]

UnitInit ==
    /\ fs \in {MakeFs(S) : S \in BoundedSubsets(UnitCandidates, MaxFiles)}
    /\ fs0 = fs
    /\ clip = PriorClip
    /\ disp = [p \in Procs |-> ProcIdle]
    /\ unit = [stage |-> "init"]

\* _parse_file_info, _rename_file_if_needed, _create_rename_back_function
UnitResolve ==
    /\ unit.stage = "init"
    /\ \E path \in UnitPaths, command \in UnitCommands :
        LET info == ParseFileInfo(path)
            r == RenameFileIfNeeded(fs, info.path, info.name, info.dir,
                                    info.outside, command)
        IN  /\ fs' = r.fs
            /\ unit' = [stage |-> "resolved", path |-> path, command |-> command,
                        raised |-> ~r.ok,
                        changed |-> r.changed, src |-> r.path, name |-> r.name,
                        orig |-> path, pre |-> fs, calls |-> 0, moves |-> 0,
                        moved |-> FALSE]
    /\ UNCHANGED <<fs0, clip, disp>>

\* the item completes its own move into the stream directory
\* (shutil.move(src_file_path, yd_menu.stream_dir))
UnitItemMove ==
    /\ unit.stage = "resolved"
    /\ ~unit.raised
    /\ unit.calls = 0
    /\ ~unit.moved
    /\ ShutilMove(fs, unit.src, StreamDir).ok
    /\ fs' = ShutilMove(fs, unit.src, StreamDir).fs
    /\ unit' = [unit EXCEPT !.moved = TRUE]
    /\ UNCHANGED <<fs0, clip, disp>>

\* rename_back()
UnitRestore ==
    /\ unit.stage = "resolved"
    /\ ~unit.raised
    /\ unit.calls < MaxRestoreCalls
    /\ LET r == RenameBack(fs, unit.changed, unit.src, unit.orig)
       IN  /\ fs' = r.fs
           /\ unit' = [unit EXCEPT !.pre = fs, !.calls = @ + 1,
                                   !.raised = ~r.ok,
                                   !.moves = IF r.fs # fs THEN @ + 1 ELSE @]
    /\ UNCHANGED <<fs0, clip, disp>>

\* generate_unique_filename and _generate_unique_file_name
UnitUnique ==
    /\ unit.stage = "init"
    /\ \E path \in UnitPaths, dir \in UnitDirs :
        unit' = [stage |-> "named", path |-> path, dir |-> dir,
                 uname |-> GenerateUniqueFilename(fs, dir, BaseName(path)),
                 rname |-> GenerateUniqueFileName(fs, path, BaseName(path),
                                                  DirName(path))]
    /\ UNCHANGED <<fs, fs0, clip, disp>>

vars == <<fs, fs0, clip, disp, unit>>

UnitNext == UnitResolve \/ UnitItemMove \/ UnitRestore \/ UnitUnique

SpecUnit == UnitInit /\ [][UnitNext]_vars

(***************************************************************************)
(* The external collaborators: the daemon's publish, the links.            *)
(***************************************************************************)
\* the link `yandex-disk publish` prints for a path, and _create_com_link of it
RuLink(path) == [dom |-> "sk", of |-> path]
ComLink(link) == IF link.dom = "sk" THEN [dom |-> "com", of |-> link.of] ELSE link

\* whether `yandex-disk publish path` can succeed: the path exists, and for a
\* path outside the synced tree the synced root holds no entry of its name
CanPublish(f, path) ==
    /\ Exists(f, path)
    /\ ParseFileInfo(path).outside => ~Exists(f, Join(YaDisk, BaseName(path)))

\* a successful publish of a path outside the synced tree leaves a copy of it
\* in the synced root (the copy _handle_publish_command_collect_link then
\* moves into the stream directory)
DaemonPublish(f, path) ==
    IF ParseFileInfo(path).outside
    THEN Transplant(f, path, Join(YaDisk, BaseName(path)), TRUE)
    ELSE f

GateOutcomes == {"idle", "late", "never"}
\* yandex-disk publish: a link; an error text; a non-zero status or timeout
\* (CalledProcessError); subprocess.run itself raising an OSError, which
\* _run_command and publish_file do not catch
PublishOutcomes == {"ok", "errorText", "failed", "raised"}
\* yandex-disk unpublish: done; an error (text, status or timeout, which
\* unpublish_file turns into a text); subprocess.run raising an OSError
UnpublishOutcomes == {"ok", "error", "raised"}

(***************************************************************************)
(* main_impl: the readiness gate, then process_command.                    *)
(***************************************************************************)
\* AfterGate with show_error_and_exit returning to the caller
AfterGateNoExit(d, outcome, next) ==
    IF outcome = "idle" THEN [d EXCEPT !.pc = next, !.idle = TRUE]
    ELSE IF outcome = "late" THEN [Note(d, "warn") EXCEPT !.pc = next, !.idle = TRUE]
    ELSE [ErrorExit(Note(d, "warn"), "gate") EXCEPT !.pc = next]

\* wait_for_ready, as the status queries turn out: idle at once; idle during
\* the wait (after the warning); never idle (warning, error, exit 1)
AfterGate(d, outcome, next) ==
    IF outcome = "idle" THEN [d EXCEPT !.pc = next, !.idle = TRUE]
    ELSE IF outcome = "late" THEN [Note(d, "warn") EXCEPT !.pc = next, !.idle = TRUE]
    ELSE ErrorExit(Note(d, "warn"), "gate")

\* main_impl going on to process_command without the call of wait_for_ready
WaitForReadySkipped(p) ==
    /\ disp[p].pc = "start"
    /\ disp' = [disp EXCEPT ![p].pc = "ready"]
    /\ UNCHANGED <<fs, fs0, clip, unit>>

WaitForReady(p) ==
    /\ disp[p].pc = "start"
    /\ \E outcome \in GateOutcomes :
          disp' = [disp EXCEPT ![p] = AfterGate(@, outcome, "ready")]
    /\ UNCHANGED <<fs, fs0, clip, unit>>

\* process_command telling the batch commands by their prefix
RouteByPrefix(command) ==
    IF command \in CLIPBOARD_COMMANDS THEN "clipboard"
    ELSE IF IsPrefix(<<"File">>, command) THEN "batch"
    ELSE IF command \in ONE_BY_ONE_COMMANDS THEN "individual"
    ELSE "unknown"

\* process_command: the tables are tried in this order
Route(command) ==
    IF command \in CLIPBOARD_COMMANDS THEN "clipboard"
    ELSE IF command \in ALL_AT_ONCE_COMMANDS THEN "batch"
    ELSE IF command \in ONE_BY_ONE_COMMANDS THEN "individual"
    ELSE "unknown"

ProcessCommand(p) ==
    /\ disp[p].pc = "ready"
    /\ disp' = [disp EXCEPT ![p].pc = Route(disp[p].cmd)]
    /\ UNCHANGED <<fs, fs0, clip, unit>>

\* _handle_unknown_command: self.yd_menu.KDE_SERVICE_MENU_PATH is no attribute
\* of YandexDiskMenu, so the f-string raises AttributeError before any
\* notification
HandleUnknownCommand(p) ==
    /\ disp[p].pc = "unknown"
    /\ disp' = [disp EXCEPT ![p] = Crash(@, "attribute")]
    /\ UNCHANGED <<fs, fs0, clip, unit>>

(***************************************************************************)
(* _handle_individual_commands: the one-by-one executor.                   *)
(***************************************************************************)
Act(path, result, acted, restores) ==
    [path |-> path, result |-> result, acted |-> acted, restores |-> restores]

\* except Exception: the item is recorded under file_path, the loop goes on
ItemRaised(d, acted, restores) ==
    [d EXCEPT !.pc = "individual",
              !.errors = Append(@, d.paths[d.idx]),
              !.acts = Append(@, Act(d.paths[d.idx], "failed", acted, restores)),
              !.idx = @ + 1]

\* sys.exit inside the item: SystemExit is no Exception, main_impl ends
ItemExited(d, why) ==
    ErrorExit([d EXCEPT !.acts = Append(@, Act(d.paths[d.idx], "exit", TRUE, 0))], why)

\* ItemFinish without the call of rename_back
ItemFinishSkipRestore(f, d) ==
    [fs |-> f,
     d |-> [d EXCEPT !.pc = "individual",
                     !.count = @ + 1,
                     !.acts = Append(@, Act(d.paths[d.idx], "ok", TRUE, 1)),
                     !.idx = @ + 1]]

\* rename_back(), then processed_count += 1
ItemFinish(f, d) ==
    LET rb == RenameBack(f, d.tk.changed, d.tk.src, d.tk.orig)
    IN  [fs |-> rb.fs,
         d |-> IF rb.ok
               THEN [d EXCEPT !.pc = "individual",
                              !.count = @ + 1,
                              !.acts = Append(@, Act(d.paths[d.idx], "ok", TRUE, 1)),
                              !.idx = @ + 1]
               ELSE ItemRaised(d, TRUE, 1)]

\* lines 1043-1058: parse, rename if needed, create rename_back
IndividualResolve(p) ==
    /\ disp[p].pc = "individual"
    /\ disp[p].idx <= Len(disp[p].paths)
    /\ LET d == disp[p]
           info == ParseFileInfo(d.paths[d.idx])
           r == RenameFileIfNeeded(fs, info.path, info.name, info.dir,
                                   info.outside, d.cmd)
       IN  /\ fs' = r.fs
           /\ disp' = [disp EXCEPT ![p] =
                 IF r.ok
                 THEN [d EXCEPT !.pc = "individualAct",
                                !.tk = [changed |-> r.changed, src |-> r.path,
                                        orig |-> info.path, name |-> r.name,
                                        dir |-> info.dir, outside |-> info.outside]]
                 ELSE ItemRaised(d, FALSE, 0)]
    /\ UNCHANGED <<fs0, clip, unit>>

\* _handle_publish_command_collect_link with publish_file, then lines
\* 1063-1071.  getA, getB: whether clipboard.get_text works; setOk, backOk:
\* whether _copy_to_clipboard finds a working method.
PublishItem(f, c, d, daemon, getA, setOk, getB, backOk) ==
    LET original == IF getA THEN c ELSE <<>>
        link == IF d.cmd = PublishToYandexCom THEN ComLink(RuLink(d.tk.src))
                ELSE RuLink(d.tk.src)
        fP == DaemonPublish(f, d.tk.src)
        shown == [Note(d, "info") EXCEPT !.writes = @ + 1]
        restored == IF original # <<>> THEN [shown EXCEPT !.writes = @ + 1] ELSE shown
        published == IF getB THEN <<link>> ELSE <<>>
        mv == IF d.tk.outside
              THEN ShutilMove(fP, Join(YaDisk, d.tk.name), StreamDir)
              ELSE Succeed(fP)
        linked == IF published # <<>>
                  THEN [restored EXCEPT !.links = Append(@, published[1])]
                  ELSE restored
        c2 == IF original # <<>> THEN original ELSE <<link>>
    IN  IF daemon = "raised" THEN [fs |-> f, clip |-> c, d |-> ItemRaised(d, TRUE, 0)]
        ELSE IF daemon # "ok" THEN [fs |-> f, clip |-> c, d |-> ItemExited(d, "publish")]
        ELSE IF ~setOk THEN [fs |-> fP, clip |-> c, d |-> ItemExited(d, "clipboard")]
        ELSE IF original # <<>> /\ ~backOk
             THEN [fs |-> fP, clip |-> <<link>>, d |-> ItemExited(shown, "clipboard")]
        ELSE IF ~mv.ok
             THEN [fs |-> fP, clip |-> c2, d |-> ItemRaised(restored, TRUE, 0)]
        ELSE [fs |-> ItemFinish(mv.fs, linked).fs, clip |-> c2,
              d |-> ItemFinish(mv.fs, linked).d]

IndividualPublish(p) ==
    /\ disp[p].pc = "individualAct"
    /\ disp[p].cmd \in PublishCommands
    /\ \E daemon \in PublishOutcomes, getA, setOk, getB, backOk \in BOOLEAN :
          /\ daemon = "ok" => CanPublish(fs, disp[p].tk.src)
          \* the outcome of a call that is not made is not drawn
          /\ (daemon # "ok" \/ ~setOk) => (getA /\ getB /\ backOk)
          /\ daemon # "ok" => setOk
          /\ (~getA \/ clip = <<>>) => backOk
          /\ LET r == PublishItem(fs, clip, disp[p], daemon, getA, setOk, getB, backOk)
             IN  /\ fs' = r.fs
                 /\ clip' = r.clip
                 /\ disp' = [disp EXCEPT ![p] = r.d]
    /\ UNCHANGED <<fs0, unit>>

\* _handle_unpublish_command: an error text from unpublish_file ends the process
IndividualUnpublish(p) ==
    /\ disp[p].pc = "individualAct"
    /\ disp[p].cmd = UnpublishFromYandex
    /\ \E daemon \in UnpublishOutcomes :
          LET d == disp[p]
              r == ItemFinish(fs, Note(d, "info"))
          IN  IF daemon = "ok"
              THEN fs' = r.fs /\ disp' = [disp EXCEPT ![p] = r.d]
              ELSE IF daemon = "raised"
              THEN fs' = fs /\ disp' = [disp EXCEPT ![p] = ItemRaised(d, TRUE, 0)]
              ELSE fs' = fs /\ disp' = [disp EXCEPT ![p] = ItemExited(d, "unpublish")]
    /\ UNCHANGED <<fs0, clip, unit>>

\* _handle_unpublish_all_command: unpublish_copies visits the file and its
\* numbered copies while they exist; an error text only changes the severity
IndividualUnpublishAll(p) ==
    /\ disp[p].pc = "individualAct"
    /\ disp[p].cmd = UnpublishAllCopy
    /\ \E daemon \in UnpublishOutcomes :
          LET d == disp[p]
              base == IF d.tk.outside THEN Join(StreamDir, d.tk.name) ELSE d.tk.src
              r == ItemFinish(fs, Note(d, IF daemon = "error" THEN "error" ELSE "info"))
          IN  \* no unpublish call is made for a file that is not there
              /\ daemon # "ok" => Exists(fs, base)
              /\ IF daemon = "raised"
                 THEN fs' = fs /\ disp' = [disp EXCEPT ![p] = ItemRaised(d, TRUE, 0)]
                 ELSE fs' = r.fs /\ disp' = [disp EXCEPT ![p] = r.d]
    /\ UNCHANGED <<fs0, clip, unit>>

\* the line break of a clipboard text
NewLine == [dom |-> "newline", of |-> <<>>]

\* the links put one after the other with nothing between them
JoinLinesNoBreak(ls) == ls

\* '\n'.join(collected_links): the links with a line break between each two
RECURSIVE JoinLines(_)
JoinLines(ls) ==
    IF Len(ls) <= 1 THEN ls
    ELSE <<Head(ls), NewLine>> \o JoinLines(Tail(ls))

\* lines 1077-1112: the links to the clipboard, the summary notifications.
\* self.Constants (line 1110) is no attribute of CommandProcessor.
IndividualSummary(d) ==
    IF d.errors # <<>> /\ d.count > 0
    THEN [Note(Note(d, "warn"), "error") EXCEPT !.pc = "done"]
    ELSE IF d.errors # <<>> THEN [Note(d, "error") EXCEPT !.pc = "done"]
    ELSE IF d.count > 1 /\ d.links = <<>> THEN Crash(d, "attribute")
    ELSE [d EXCEPT !.pc = "done"]

IndividualReport(p) ==
    /\ disp[p].pc = "individual"
    /\ disp[p].idx > Len(disp[p].paths)
    /\ \E setOk \in BOOLEAN :
          LET d == disp[p]
          IN  IF d.links = <<>>
              THEN clip' = clip /\ disp' = [disp EXCEPT ![p] = IndividualSummary(d)]
              ELSE IF setOk
              THEN /\ clip' = JoinLines(d.links)
                   /\ disp' = [disp EXCEPT ![p] =
                         IndividualSummary([Note(d, "info") EXCEPT !.writes = @ + 1])]
              ELSE clip' = clip /\ disp' = [disp EXCEPT ![p] = ErrorExit(d, "clipboard")]
    /\ UNCHANGED <<fs, fs0, unit>>


(***************************************************************************)
(* _handle_batch_command and the two batch executors.                      *)
(***************************************************************************)
\* line 1118: self.yd_menu.TIMEOUT_SHORT is no attribute of YandexDiskMenu
HandleBatchEmpty(p) ==
    /\ disp[p].pc = "batch"
    /\ disp[p].paths = <<>>
    /\ disp' = [disp EXCEPT ![p] = Crash(@, "attribute")]
    /\ UNCHANGED <<fs, fs0, clip, unit>>

\* after the last path: the error notification of lines 1157-1161, then the
\* executor starts at the first processed item
ResolvePassEnd(d) ==
    IF d.idx <= Len(d.paths) THEN d
    ELSE [(IF d.errors # <<>> THEN Note(d, "error") ELSE d)
             EXCEPT !.pc = "batchRun", !.idx = 1]

\* lines 1127-1155, one path of the resolve pass
BatchResolve(p) ==
    /\ disp[p].pc = "batch"
    /\ disp[p].idx <= Len(disp[p].paths)
    /\ LET d == disp[p]
           info == ParseFileInfo(d.paths[d.idx])
           r == RenameFileIfNeeded(fs, info.path, info.name, info.dir,
                                   info.outside, d.cmd)
           ticket == IF d.cmd = FileAddToStream
                     THEN [changed |-> r.changed, src |-> r.path, orig |-> info.path]
                     ELSE NoTicket
           item == [src |-> r.path, name |-> r.name, tk |-> ticket,
                    path |-> d.paths[d.idx]]
       IN  /\ fs' = r.fs
           /\ disp' = [disp EXCEPT ![p] = ResolvePassEnd(
                 IF r.ok
                 THEN [d EXCEPT !.items = Append(@, item), !.idx = @ + 1]
                 ELSE [d EXCEPT !.errors = Append(@, d.paths[d.idx]),
                                !.idx = @ + 1])]
    /\ UNCHANGED <<fs0, clip, unit>>

\* what the directory action of an item can meet: the file system as it
\* is; an OSError with errno ENOTDIR; an OSError with another errno.  The
\* two injected errors leave the file system as it was.
DirOutcomes == {"asIs", "enotdir", "oserror"}

\* how an attempt went: the first action, the single-file attempts after it
Tried(r, first, single) ==
    [ok |-> r.ok, fs |-> r.fs, first |-> first, single |-> single]

\* the copy of one processed item (lines 737-751): copytree for a directory,
\* on ENOTDIR copy2 once (which refuses a directory), else copy2
CopyItem(f, src, env) ==
    LET dest == Join(StreamDir, BaseName(src))
    IN  IF ~IsDir(f, src) THEN Tried(ShutilCopy2(f, src, StreamDir), "file", 0)
        ELSE IF env = "enotdir" THEN Tried(ShutilCopy2(f, src, dest), "enotdir", 1)
        ELSE IF env = "oserror" THEN Tried(Fail(f), "error", 0)
        ELSE LET r == ShutilCopytree(f, src, dest)
             IN  Tried(r, IF r.ok THEN "dir" ELSE "error", 0)

\* MoveItem with the move tried again after any OSError
MoveItemRetryAnyError(f, src, env) ==
    LET dest == Join(StreamDir, BaseName(src))
    IN  IF ~IsDir(f, src) THEN Tried(ShutilMove(f, src, StreamDir), "file", 0)
        ELSE IF env = "enotdir" THEN Tried(ShutilMove(f, src, dest), "enotdir", 1)
        ELSE IF env = "oserror" THEN Tried(ShutilMove(f, src, dest), "error", 1)
        ELSE LET r == ShutilMove(f, src, dest)
             IN  Tried(r, IF r.ok THEN "dir" ELSE "error", 0)

\* the move of one processed item (lines 802-816): on ENOTDIR the move is
\* tried once more
MoveItem(f, src, env) ==
    LET dest == Join(StreamDir, BaseName(src))
    IN  IF ~IsDir(f, src) THEN Tried(ShutilMove(f, src, StreamDir), "file", 0)
        ELSE IF env = "enotdir" THEN Tried(ShutilMove(f, src, dest), "enotdir", 1)
        ELSE IF env = "oserror" THEN Tried(Fail(f), "error", 0)
        ELSE LET r == ShutilMove(f, src, dest)
             IN  Tried(r, IF r.ok THEN "dir" ELSE "error", 0)

\* the attempt as the dispatch records it
Attempt(path, t) ==
    [path |-> path, ok |-> t.ok, first |-> t.first, single |-> t.single]

\* _handle_batch_add_to_stream, one iteration of the loop: copy, count the
\* item as copied, rename_back(); an exception anywhere records the item
BatchCopy(p) ==
    /\ disp[p].pc = "batchRun"
    /\ disp[p].cmd = FileAddToStream
    /\ disp[p].idx <= Len(disp[p].items)
    /\ \E env \in DirOutcomes :
          LET d == disp[p]
              it == d.items[d.idx]
              cp == CopyItem(fs, it.src, env)
              rb == RenameBack(cp.fs, it.tk.changed, it.tk.src, it.tk.orig)
              t == [d EXCEPT !.tries = Append(@, Attempt(it.path, cp))]
          IN  \* no error is injected where no directory action is made
              /\ ~IsDir(fs, it.src) => env = "asIs"
              /\ IF ~cp.ok
                 THEN /\ fs' = fs
                      /\ disp' = [disp EXCEPT ![p] =
                            [t EXCEPT !.xerrors = Append(@, it.src),
                                      !.acts = Append(@, Act(it.path, "failed", TRUE, 0)),
                                      !.idx = @ + 1]]
                 ELSE /\ fs' = rb.fs
                      /\ disp' = [disp EXCEPT ![p] =
                            IF rb.ok
                            THEN [t EXCEPT !.count = @ + 1,
                                           !.acts = Append(@, Act(it.path, "ok", TRUE, 1)),
                                           !.idx = @ + 1]
                            ELSE [t EXCEPT !.count = @ + 1,
                                           !.xerrors = Append(@, it.src),
                                           !.acts = Append(@, Act(it.path, "failed", TRUE, 1)),
                                           !.idx = @ + 1]]
    /\ UNCHANGED <<fs0, clip, unit>>

\* _handle_batch_move_to_stream, one iteration of the loop
BatchMove(p) ==
    /\ disp[p].pc = "batchRun"
    /\ disp[p].cmd = FileMoveToStream
    /\ disp[p].idx <= Len(disp[p].items)
    /\ \E env \in DirOutcomes :
          LET d == disp[p]
              it == d.items[d.idx]
              mv == MoveItem(fs, it.src, env)
              t == [d EXCEPT !.tries = Append(@, Attempt(it.path, mv))]
          IN  \* no error is injected where no directory action is made
              /\ ~IsDir(fs, it.src) => env = "asIs"
              /\ fs' = mv.fs
              /\ disp' = [disp EXCEPT ![p] =
                    IF mv.ok
                    THEN [t EXCEPT !.count = @ + 1,
                                   !.acts = Append(@, Act(it.path, "ok", TRUE, 0)),
                                   !.idx = @ + 1]
                    ELSE [t EXCEPT !.xerrors = Append(@, it.src),
                                   !.acts = Append(@, Act(it.path, "failed", TRUE, 0)),
                                   !.idx = @ + 1]]
    /\ UNCHANGED <<fs0, clip, unit>>

\* BatchSummary with the sync issued only when some item went through
BatchSummarySyncOnSuccess(d) ==
    LET ended == [d EXCEPT !.pc = "done"]
        synced == [ended EXCEPT !.syncs = @ + 1]
    IN  IF d.xerrors # <<>> /\ d.count > 0 THEN Note(Note(synced, "warn"), "info")
        ELSE IF d.xerrors # <<>> THEN Note(ended, "error")
        ELSE Note(synced, "info")

\* after the loop: one sync, then the notifications (lines 760-791, 824-855);
\* the partial-failure warning falls through to the success notification
BatchSummary(d) ==
    LET synced == [d EXCEPT !.syncs = @ + 1, !.pc = "done"]
    IN  IF d.xerrors # <<>> /\ d.count > 0 THEN Note(Note(synced, "warn"), "info")
        ELSE IF d.xerrors # <<>> THEN Note(synced, "error")
        ELSE Note(synced, "info")

BatchFinish(p) ==
    /\ disp[p].pc = "batchRun"
    /\ disp[p].idx > Len(disp[p].items)
    /\ disp' = [disp EXCEPT ![p] = BatchSummary(@)]
    /\ UNCHANGED <<fs, fs0, clip, unit>>

(***************************************************************************)
(* The clipboard commands.                                                 *)
(***************************************************************************)
NmNote == <<"note">>
NotePath == Join(StreamDir, NmNote)
ClipboardOutcomes == {"saved", "empty", "ioerror"}

\* get_clipboard_content saving the clipboard under the stream directory
\* (open(..., 'w') replaces a file of that name)
SaveNote(f) ==
    [q \in DOMAIN f \cup {NotePath} |->
        IF q = NotePath THEN [kind |-> "file", data |-> <<<<"clipboard">>>>]
        ELSE f[q]]

\* publish_file: the daemon's answer, the link to the clipboard, the note
PublishFile(d, c, path, useCom, daemon, setOk) ==
    LET link == IF useCom THEN ComLink(RuLink(path)) ELSE RuLink(path)
    IN  \* an OSError of subprocess.run is caught nowhere on this path
        IF daemon = "raised" THEN [clip |-> c, d |-> Crash(d, "oserror")]
        ELSE IF daemon # "ok" THEN [clip |-> c, d |-> ErrorExit(d, "publish")]
        ELSE IF ~setOk THEN [clip |-> c, d |-> ErrorExit(d, "clipboard")]
        ELSE [clip |-> <<link>>,
              d |-> [Note(d, "info") EXCEPT !.pc = "done", !.writes = @ + 1]]

\* NoClipboardContent with the handler going on to the flush it reports
NoClipboardContentGoesOn(d) ==
    [Note([d EXCEPT !.syncs = @ + 1], "info") EXCEPT !.pc = "done", !.cause = "noclip"]

\* `if not clip_dest_path: sys.exit(EXIT_CODE_ERROR)`: no notification
NoClipboardContent(d) ==
    [d EXCEPT !.pc = "exited", !.exitCode = 1, !.cause = "noclip"]

\* _handle_clipboard_to_stream_command, _handle_clipboard_publish_command
HandleClipboard(p) ==
    /\ disp[p].pc = "clipboard"
    /\ \E content \in ClipboardOutcomes, gate \in GateOutcomes,
          daemon \in PublishOutcomes, setOk \in BOOLEAN :
          LET d == disp[p]
              flushed == Note([d EXCEPT !.syncs = @ + 1], "info")
              gated == AfterGate(flushed, gate, "clipboard")
              pub == PublishFile(gated, clip, NotePath,
                                 d.cmd = ClipboardPublishToCom, daemon, setOk)
          IN  /\ content = "saved" => ~IsDir(fs, NotePath)
              \* the outcome of a call that is not made is not drawn
              /\ (content # "saved" \/ d.cmd = ClipboardToStream) => gate = "idle"
              /\ gate = "never" \/ content # "saved" \/ d.cmd = ClipboardToStream
                    => (daemon = "ok" /\ setOk)
              /\ daemon # "ok" => setOk
              /\ IF content = "empty"
                 THEN /\ disp' = [disp EXCEPT ![p] = NoClipboardContent(d)]
                      /\ UNCHANGED <<fs, clip>>
                 ELSE IF content = "ioerror"
                 THEN /\ disp' = [disp EXCEPT ![p] = ErrorExit(d, "save")]
                      /\ UNCHANGED <<fs, clip>>
                 ELSE IF d.cmd = ClipboardToStream
                 THEN /\ disp' = [disp EXCEPT ![p] = [flushed EXCEPT !.pc = "done"]]
                      /\ fs' = SaveNote(fs)
                      /\ clip' = clip
                 ELSE IF gate = "never"
                 THEN /\ disp' = [disp EXCEPT ![p] = gated]
                      /\ fs' = SaveNote(fs)
                      /\ clip' = clip
                 ELSE /\ disp' = [disp EXCEPT ![p] = pub.d]
                      /\ fs' = SaveNote(fs)
                      /\ clip' = pub.clip
    /\ UNCHANGED <<fs0, unit>>

(***************************************************************************)
(* One invocation on a bounded family of trees and inputs (Spec); two      *)
(* invocations of the batch commands on the same tree (SpecConc).          *)
(***************************************************************************)
Candidates ==
    {Join(StreamDir, NmDoc), Join(YaDisk, NmDoc), Join(Home, NmDoc),
     Join(Work, NmDoc), Join(Home, NmDoc1), Join(Home, NmDir)}

AllCommands ==
    ONE_BY_ONE_COMMANDS \cup ALL_AT_ONCE_COMMANDS \cup CLIPBOARD_COMMANDS
        \cup UnknownCommands

\* the selections of at most n distinct entries of f, in every order
Selections(f, n) ==
    LET S == DOMAIN f \ SkeletonDirs
    IN  UNION {{s \in [1..k -> S] : \A i, j \in 1..k : s[i] = s[j] => i = j} :
                  k \in 0..n}

Init ==
    /\ fs \in {MakeFs(S) : S \in BoundedSubsets(Candidates, MaxFiles)}
    /\ fs0 = fs
    /\ clip = PriorClip
    /\ \E command \in AllCommands, ps \in Selections(fs, MaxItems) :
          \* only the file commands read the paths: one path stands for any
          /\ command \notin ONE_BY_ONE_COMMANDS \cup ALL_AT_ONCE_COMMANDS =>
                Len(ps) <= 1
          /\ disp = [p \in Procs |-> IF p = 1 THEN ProcStart(command, ps) ELSE ProcIdle]
    /\ unit = UnitOff

Next ==
    \/ WaitForReady(1)
    \/ ProcessCommand(1)
    \/ HandleUnknownCommand(1)
    \/ IndividualResolve(1)
    \/ IndividualPublish(1)
    \/ IndividualUnpublish(1)
    \/ IndividualUnpublishAll(1)
    \/ IndividualReport(1)
    \/ HandleBatchEmpty(1)
    \/ BatchResolve(1)
    \/ BatchCopy(1)
    \/ BatchMove(1)
    \/ BatchFinish(1)
    \/ HandleClipboard(1)

Spec == Init /\ [][Next]_vars

ConcCandidates ==
    {Join(StreamDir, NmDoc), Join(Home, NmDoc), Join(Work, NmDoc),
     Join(Home, NmDoc1), Join(Home, NmDir)}

ConcInputs(f) == Selections(f, MaxConcItems) \ {<<>>}

ConcInit ==
    /\ fs \in {MakeFs(S) : S \in BoundedSubsets(ConcCandidates, MaxFiles)}
    /\ fs0 = fs
    /\ clip = PriorClip
    /\ \E c1, c2 \in ALL_AT_ONCE_COMMANDS, ps1, ps2 \in ConcInputs(fs) :
          disp = [p \in Procs |-> IF p = 1 THEN ProcStart(c1, ps1)
                                  ELSE ProcStart(c2, ps2)]
    /\ unit = UnitOff

ConcNext ==
    \E p \in Procs :
        \/ WaitForReady(p)
        \/ ProcessCommand(p)
        \/ BatchResolve(p)
        \/ BatchCopy(p)
        \/ BatchMove(p)
        \/ BatchFinish(p)

SpecConc == ConcInit /\ [][ConcNext]_vars

(***************************************************************************)
(* Claims about the resolver and the generators (SpecUnit).                *)
(***************************************************************************)
InTree(p) == DirName(p) \in {YaDisk, StreamDir}
SameNamedEntry(f, name) ==
    Join(StreamDir, name) \in DOMAIN f \/ Join(YaDisk, name) \in DOMAIN f
AbsentEverywhere(f, dir, name) ==
    /\ Join(StreamDir, name) \notin DOMAIN f
    /\ Join(YaDisk, name) \notin DOMAIN f
    /\ Join(dir, name) \notin DOMAIN f

\* C2: rename round trip.  After a triggered rename the original path is gone
\* and the content is at a new path of the same directory whose name was in
\* none of the three directories; after rename_back the original path holds
\* the original content again and the renamed path is gone.
C2_RenameRoundTrip ==
    (unit.stage = "resolved" /\ unit.changed /\ ~unit.moved) =>
        /\ ~unit.raised
        /\ unit.src # unit.orig
        /\ DirName(unit.src) = DirName(unit.orig)
        /\ BaseName(unit.src) = unit.name
        /\ AbsentEverywhere(fs0, DirName(unit.orig), unit.name)
        /\ unit.calls = 0 =>
              /\ unit.orig \notin DOMAIN fs
              /\ unit.src \in DOMAIN fs
              /\ fs[unit.src] = fs0[unit.orig]
        /\ unit.calls >= 1 =>
              /\ unit.orig \in DOMAIN fs
              /\ fs[unit.orig] = fs0[unit.orig]
              /\ unit.src \notin DOMAIN fs
              /\ fs = fs0

C2_Witness ==
    /\ unit.stage = "resolved" /\ unit.changed /\ ~unit.moved
    /\ unit.calls = 1
    /\ unit.src \in DOMAIN unit.pre
    /\ unit.orig \in DOMAIN fs

\* C7: the resolver renames an existing file exactly when a same-named entry
\* exists in the stream directory or the synced root and the command is
\* FileAddToStream or FileMoveToStream, or a publish command on a file
\* outside the synced tree; in every other case it renames nothing.
C7_RenameIffConflictAndClass ==
    unit.stage = "resolved" =>
        (unit.changed <=>
            /\ unit.path \in DOMAIN fs0
            /\ SameNamedEntry(fs0, BaseName(unit.path))
            /\ \/ unit.command \in {FileAddToStream, FileMoveToStream}
               \/ unit.command \in {PublishToYandexCom, PublishToYandex}
                    /\ ~InTree(unit.path))

C7_Witness ==
    /\ unit.stage = "resolved" /\ unit.changed
    /\ unit.command = PublishToYandex
    /\ ~InTree(unit.path)
    /\ Join(YaDisk, BaseName(unit.path)) \in DOMAIN fs0

\* C8: with no same-named entry in the stream directory or the synced root
\* the resolver returns the path and the name as given with renamed = false
\* and changes no file, and its rename_back changes nothing when called.
C8_NoConflictNoChange ==
    (unit.stage = "resolved" /\ ~SameNamedEntry(fs0, BaseName(unit.path))) =>
        /\ ~unit.changed
        /\ unit.src = unit.path
        /\ unit.name = BaseName(unit.path)
        /\ (unit.calls = 0 /\ ~unit.moved) => fs = fs0
        /\ unit.calls >= 1 => (fs = unit.pre /\ ~unit.raised)

C8_Witness ==
    /\ unit.stage = "resolved"
    /\ unit.path \in DOMAIN fs0
    /\ ~SameNamedEntry(fs0, BaseName(unit.path))
    /\ unit.command \in {FileAddToStream, PublishToYandexCom}
    /\ unit.calls >= 1

\* C9: a call of rename_back moves the file back to the original path exactly
\* when a rename occurred and a file is at the renamed path; a second call
\* after that changes nothing, and so does every call of a rename_back made
\* when no rename occurred.
C9_RestoreIffRenamedAndPresent ==
    (unit.stage = "resolved" /\ unit.calls >= 1) =>
        /\ (fs # unit.pre) <=> (unit.changed /\ unit.src \in DOMAIN unit.pre)
        /\ (fs # unit.pre) =>
              /\ unit.orig \in DOMAIN fs
              /\ fs[unit.orig] = unit.pre[unit.src]
              /\ unit.src \notin DOMAIN fs
        /\ unit.calls >= 2 => fs = unit.pre
        /\ ~unit.changed => unit.moves = 0

C9_Witness ==
    /\ unit.stage = "resolved" /\ unit.changed
    /\ unit.calls = 2
    /\ unit.moves = 1

\* C10: the name a unique-name computation returns exists in none of the
\* stream directory, the synced root and the given directory.
C10_UniqueNameAbsent ==
    /\ unit.stage = "named" =>
          /\ AbsentEverywhere(fs, unit.dir, unit.uname)
          /\ AbsentEverywhere(fs, DirName(unit.path), unit.rname.name)
          /\ unit.rname.path = Join(DirName(unit.path), unit.rname.name)
    /\ (unit.stage = "resolved" /\ unit.changed) =>
          AbsentEverywhere(fs0, DirName(unit.path), unit.name)

C10_Witness ==
    /\ unit.stage = "named"
    /\ unit.uname = NmDoc2
    /\ Join(unit.dir, NmDoc1) \in DOMAIN fs
    /\ Join(StreamDir, NmDoc1) \notin DOMAIN fs
    /\ Join(YaDisk, NmDoc1) \notin DOMAIN fs


(***************************************************************************)
(* Claims about one dispatch (Spec) and two concurrent dispatches          *)
(* (SpecConc).                                                             *)
(***************************************************************************)
Unchanged(q) == q \in DOMAIN fs /\ fs[q] = fs0[q]

\* C1: restore exactly once per processed item.  Every item whose action the
\* one-by-one executor or the batch copy executor has run, whether the action
\* returned, raised or ended through the error exit, has had rename_back
\* invoked exactly once.
C1_RestoreExactlyOnce ==
    \A p \in Procs :
        LET d == disp[p]
        IN  (d.cmd \in ONE_BY_ONE_COMMANDS \/ d.cmd = FileAddToStream) =>
                \A i \in 1..Len(d.acts) :
                    d.acts[i].acted => d.acts[i].restores = 1

\* C3: one failing item never aborts a one-by-one dispatch.  When a dispatch
\* of a publish or unpublish command that passed the readiness gate has ended
\* (for any reason but the clipboard being unusable), every path of the list
\* has been processed and each is either done or recorded as failed.
C3_FailureNeverAborts ==
    \A p \in Procs :
        LET d == disp[p]
        IN  (d.cmd \in ONE_BY_ONE_COMMANDS /\ Ended(d)
                /\ d.cause \notin {"gate", "clipboard"}) =>
                /\ Len(d.acts) = Len(d.paths)
                /\ \A i \in 1..Len(d.acts) : d.acts[i].result \in {"ok", "failed"}

\* C4: with two dispatchers on the same tree, no step overwrites or replaces
\* an entry that already exists: every path that exists before and after a
\* step holds the same entry.
C4_NeverOverwrite ==
    [][\A q \in DOMAIN fs : q \in DOMAIN fs' => fs'[q] = fs[q]]_vars

\* C5: a FileAddToStream dispatch in which every item resolved and every copy
\* succeeded leaves every source at its path with its content, every entry
\* that was under the stream directory as it was, and each source's content
\* in the stream directory under the name the resolver gave it.
C5_CopyKeepsAll ==
    LET d == disp[1]
    IN  (d.cmd = FileAddToStream /\ d.pc = "done" /\ d.errors = <<>>
            /\ d.xerrors = <<>>) =>
            /\ \A i \in 1..Len(d.paths) : Unchanged(d.paths[i])
            /\ \A q \in Subtree(fs0, StreamDir) : Unchanged(q)
            /\ \A i \in 1..Len(d.items) :
                  LET q == Join(StreamDir, d.items[i].name)
                  IN  q \in DOMAIN fs /\ fs[q].data = fs0[d.items[i].path].data

\* the items of a publish dispatch C6 is about: outside the synced tree, an
\* entry of the same name in the synced root or the stream directory before
\* the dispatch, and the item's publish done
PublishedOverConflict(d) ==
    {i \in 1..Len(d.acts) :
        /\ d.cmd \in PublishCommands
        /\ ParseFileInfo(d.acts[i].path).outside
        /\ SameNamedEntry(fs0, ParseFileInfo(d.acts[i].path).name)
        /\ d.acts[i].result = "ok"}

\* C6: publish of an outside file over a name conflict.  When the dispatch
\* has ended, for every such item whose publish succeeded, the entries of its
\* name that were in the synced root and the stream directory are as they
\* were, and the source is at its original path with its original content.
C6_PublishKeepsBoth ==
    LET d == disp[1]
    IN  Ended(d) =>
            \A i \in PublishedOverConflict(d) :
                LET info == ParseFileInfo(d.acts[i].path)
                IN  /\ \A q \in Subtree(fs0, info.path) : Unchanged(q)
                    /\ \A q \in {Join(YaDisk, info.name), Join(StreamDir, info.name)}
                                   \cap DOMAIN fs0 : Unchanged(q)

C6_Witness ==
    /\ disp[1].pc = "done"
    /\ PublishedOverConflict(disp[1]) # {}
    /\ Len(disp[1].paths) = 2
    /\ Join(YaDisk, ParseFileInfo(disp[1].paths[1]).name) \in DOMAIN fs0


(***************************************************************************)
(* Claims about the unique names (SpecUnit).                               *)
(***************************************************************************)
\* the candidate of index k for a name as the generators compose it: the
\* name itself, then stem_k + extension
CodeCandidate(name, k) ==
    IF k = 0 THEN name ELSE Suffixed(NamePart(name), k, ExtPart(name))

\* the candidate of index k by the hidden-file rule as stated: only a name
\* whose single dot is the leading one is all stem; every other name is split
\* into stem and extension at its last dot
Candidate(name, k) ==
    IF k = 0 THEN name
    ELSE IF StartsWithDot(name) /\ RFind(name, ".") = 1
         THEN name \o <<"_">> \o IntToStr(k)
         ELSE LET i == RFind(name, ".")
              IN  IF i = 0 THEN name \o <<"_">> \o IntToStr(k)
                  ELSE SubSeq(name, 1, i - 1) \o <<"_">> \o IntToStr(k)
                           \o SubSeq(name, i, Len(name))

\* the candidate of the smallest index that is in none of the three
\* directories (among n + 1 candidates one is free when f has n entries)
SmallestFree(f, dir, name, C(_, _)) ==
    LET free == {k \in 0..Cardinality(DOMAIN f) : ~NameTaken(f, dir, C(name, k))}
    IN  C(name, CHOOSE k \in free : \A j \in free : k <= j)

\* C11: smallest free index, and agreement of the two generators.
\* generate_unique_filename returns the candidate of the smallest index
\* k >= 0 that is free in the stream directory, the synced root and the
\* target directory; so does the resolver's generator for the file it is
\* given (an existing file, as in every call _rename_file_if_needed makes),
\* and both return the same name for that file on the same file system.
C11_SmallestIndexSameName ==
    /\ unit.stage = "named" =>
          /\ unit.uname =
                SmallestFree(fs, unit.dir, BaseName(unit.path), CodeCandidate)
          /\ Exists(fs, unit.path) =>
                /\ unit.rname.name = SmallestFree(fs, DirName(unit.path),
                                                  BaseName(unit.path), CodeCandidate)
                /\ unit.rname.name = GenerateUniqueFilename(fs, DirName(unit.path),
                                                            BaseName(unit.path))
    /\ (unit.stage = "resolved" /\ unit.changed) =>
          /\ unit.name = SmallestFree(fs0, DirName(unit.path),
                                      BaseName(unit.path), CodeCandidate)
          /\ unit.name = GenerateUniqueFilename(fs0, DirName(unit.path),
                                                BaseName(unit.path))

C11_Witness ==
    /\ unit.stage = "named"
    /\ Exists(fs, unit.path)
    /\ unit.dir = DirName(unit.path)
    /\ unit.rname.name = NmDoc2
    /\ unit.uname = NmDoc2
    /\ Join(StreamDir, NmDoc1) \in DOMAIN fs

\* C12: the hidden-file rule.  For a name with a leading dot both generators
\* return the candidate of the smallest free index composed by the rule as
\* stated: the suffix at the very end only when the name has no other dot,
\* between stem and extension otherwise.
C12_HiddenFileRule ==
    (unit.stage = "named" /\ StartsWithDot(BaseName(unit.path))) =>
        /\ unit.uname = SmallestFree(fs, unit.dir, BaseName(unit.path), Candidate)
        /\ Exists(fs, unit.path) =>
              unit.rname.name = SmallestFree(fs, DirName(unit.path),
                                             BaseName(unit.path), Candidate)


(***************************************************************************)
(* wait_for_ready, query by query (SpecGate).  AfterGate is the summary of *)
(* its three ways through.                                                 *)
(***************************************************************************)
WAIT_TIMEOUT == 30

\* what _get_yandex_status can return: the parsed status, or 'not started'
Statuses == {"idle", "busy", "index", "not started"}

GateInit ==
    /\ fs = MakeFs({})
    /\ fs0 = fs
    /\ clip = PriorClip
    /\ disp = [p \in Procs |-> ProcIdle]
    /\ unit = [stage |-> "gateStart", first |-> "none", last |-> "none",
               queries |-> 0, polls |-> 0, sleeps |-> 0, notes |-> <<>>,
               exitCode |-> 0]

\* GateFirstQuery with the notification shown before the status is tested
GateFirstQueryWarnFirst ==
    /\ unit.stage = "gateStart"
    /\ \E status \in Statuses :
          unit' = [unit EXCEPT !.queries = @ + 1, !.first = status, !.last = status,
                               !.notes = Append(@, "warn"),
                               !.stage = IF status = "idle" THEN "gateReturned"
                                         ELSE "gatePoll"]
    /\ UNCHANGED <<fs, fs0, clip, disp>>

\* lines 318-323: the first query; idle returns, anything else warns
GateFirstQuery ==
    /\ unit.stage = "gateStart"
    /\ \E status \in Statuses :
          unit' = IF status = "idle"
                  THEN [unit EXCEPT !.queries = @ + 1, !.first = status,
                                    !.last = status, !.stage = "gateReturned"]
                  ELSE [unit EXCEPT !.queries = @ + 1, !.first = status,
                                    !.last = status, !.notes = Append(@, "warn"),
                                    !.stage = "gatePoll"]
    /\ UNCHANGED <<fs, fs0, clip, disp>>

\* GatePoll with the sleep taken before the status is tested
GatePollSleepFirst ==
    /\ unit.stage = "gatePoll"
    /\ unit.polls < WAIT_TIMEOUT
    /\ \E status \in Statuses :
          unit' = IF status = "idle"
                  THEN [unit EXCEPT !.queries = @ + 1, !.polls = @ + 1,
                                    !.last = status, !.sleeps = @ + 1,
                                    !.stage = "gateReturned"]
                  ELSE [unit EXCEPT !.queries = @ + 1, !.polls = @ + 1,
                                    !.last = status, !.sleeps = @ + 1]
    /\ UNCHANGED <<fs, fs0, clip, disp>>

\* lines 325-330: one round of the loop; idle returns, anything else sleeps
GatePoll ==
    /\ unit.stage = "gatePoll"
    /\ unit.polls < WAIT_TIMEOUT
    /\ \E status \in Statuses :
          unit' = IF status = "idle"
                  THEN [unit EXCEPT !.queries = @ + 1, !.polls = @ + 1,
                                    !.last = status, !.stage = "gateReturned"]
                  ELSE [unit EXCEPT !.queries = @ + 1, !.polls = @ + 1,
                                    !.last = status, !.sleeps = @ + 1]
    /\ UNCHANGED <<fs, fs0, clip, disp>>

\* lines 332-335: the loop is exhausted; show_error_and_exit
GateGiveUp ==
    /\ unit.stage = "gatePoll"
    /\ unit.polls = WAIT_TIMEOUT
    /\ unit' = [unit EXCEPT !.notes = Append(@, "error"), !.exitCode = 1,
                            !.stage = "gateExited"]
    /\ UNCHANGED <<fs, fs0, clip, disp>>

\* a status query raising what _get_yandex_status does not catch: the
\* exception leaves wait_for_ready
GateQueryRaises ==
    /\ unit.stage \in {"gateStart", "gatePoll"}
    /\ unit.stage = "gatePoll" => unit.polls < WAIT_TIMEOUT
    /\ unit' = [unit EXCEPT !.queries = @ + 1, !.exitCode = 1,
                            !.polls = IF unit.stage = "gatePoll" THEN @ + 1 ELSE @,
                            !.stage = "gateCrashed"]
    /\ UNCHANGED <<fs, fs0, clip, disp>>

GateNext == GateFirstQuery \/ GatePoll \/ GateGiveUp \/ GateQueryRaises

SpecGate == GateInit /\ [][GateNext]_vars

(***************************************************************************)
(* Claims about the sync call, the readiness gate and the routing (Spec).  *)
(***************************************************************************)
\* C13: one sync per batch dispatch.  A FileAddToStream or FileMoveToStream
\* dispatch never has more than one sync call; the call is made only when
\* the copy or move of every processed item has been attempted; and a
\* dispatch over at least one path that passed the readiness gate ends with
\* exactly one sync call, however many items failed.
C13_OneSyncAfterAll ==
    \A p \in Procs :
        LET d == disp[p]
        IN  d.cmd \in ALL_AT_ONCE_COMMANDS =>
                /\ d.syncs <= 1
                /\ d.syncs = 1 =>
                      /\ Len(d.acts) = Len(d.items)
                      /\ Len(d.items) + Len(d.errors) = Len(d.paths)
                /\ (Ended(d) /\ d.paths # <<>> /\ d.cause # "gate") => d.syncs = 1

C13_Witness ==
    /\ disp[1].cmd \in ALL_AT_ONCE_COMMANDS
    /\ disp[1].pc = "done"
    /\ Len(disp[1].paths) = 2
    /\ Len(disp[1].xerrors) = 1
    /\ disp[1].syncs = 1

\* the same for a dispatch in which every item failed
C13_WitnessAllFailed ==
    /\ disp[1].cmd \in ALL_AT_ONCE_COMMANDS
    /\ disp[1].pc = "done"
    /\ disp[1].xerrors # <<>>
    /\ disp[1].count = 0
    /\ disp[1].syncs = 1


ClipboardPublishCommands == {ClipboardPublishToCom, ClipboardPublish}

\* C14: a daemon that never becomes idle is fatal.  A dispatch ended by the
\* readiness gate has exited with status 1; the gate's call showed one
\* warning and then one error, its last two notifications; and nothing was
\* processed: no item, no sync, no change of the file system or the
\* clipboard (for a clipboard publish stopped at its second gate: nothing
\* after the flush of the clipboard, in particular no publish).
C14_GateNeverIdleIsFatal ==
    LET d == disp[1]
        n == Len(d.notes)
    IN  d.cause = "gate" =>
            /\ d.pc = "exited" /\ d.exitCode = 1
            /\ n >= 2 /\ d.notes[n - 1] = "warn" /\ d.notes[n] = "error"
            /\ d.acts = <<>> /\ d.items = <<>> /\ d.links = <<>>
            /\ clip = PriorClip
            /\ d.cmd \notin ClipboardPublishCommands =>
                  d.notes = <<"warn", "error">> /\ d.syncs = 0 /\ fs = fs0
            /\ d.cmd \in ClipboardPublishCommands =>
                  \/ d.notes = <<"warn", "error">> /\ d.syncs = 0 /\ fs = fs0
                  \/ /\ d.notes \in {<<"info", "warn", "error">>,
                                     <<"warn", "info", "warn", "error">>}
                     /\ d.syncs = 1
                     /\ fs = SaveNote(fs0)

C14_Witness ==
    /\ disp[1].cause = "gate"
    /\ disp[1].cmd = PublishToYandex
    /\ Len(disp[1].paths) = 2

\* C15: idle at the first query.  When the first status query answers idle,
\* wait_for_ready has returned after that one query, with no notification
\* and no sleep.
C15_IdleReturnsAtOnce ==
    unit.stage \in {"gatePoll", "gateReturned", "gateExited"} /\ unit.first = "idle" =>
        /\ unit.stage = "gateReturned"
        /\ unit.queries = 1
        /\ unit.notes = <<>>
        /\ unit.sleeps = 0
        /\ unit.exitCode = 0

C15_Witness ==
    /\ unit.stage = "gateReturned"
    /\ unit.first = "idle"
    /\ unit.queries = 1


\* what a dispatch has done besides notifying: file-system or clipboard
\* changes, items taken up, links, sync calls, a daemon call that failed
NothingDone(d) ==
    /\ fs = fs0
    /\ clip = PriorClip
    /\ d.syncs = 0 /\ d.writes = 0
    /\ d.acts = <<>> /\ d.items = <<>> /\ d.links = <<>> /\ d.errors = <<>>
    /\ d.cause \in {"none", "gate"}

\* C16: nothing before the gate.  As long as wait_for_ready has not seen
\* status idle, the dispatch has changed no file and not the clipboard, and
\* has made no publish, unpublish or sync call.
C16_NothingBeforeIdle ==
    ~disp[1].idle => NothingDone(disp[1])

C16_Witness ==
    /\ ~disp[1].idle
    /\ disp[1].pc = "exited"
    /\ disp[1].cmd = FileMoveToStream
    /\ Len(disp[1].paths) = 2

\* C17: an unknown command only reports.  A dispatch of a command of none of
\* the three tables that passed the readiness gate ends normally (exit
\* status 0, no uncaught exception) with exactly one notification of its
\* own, and has changed no file and made no daemon call.
C17_UnknownCommandOnlyReports ==
    LET d == disp[1]
    IN  (d.cmd \notin ONE_BY_ONE_COMMANDS \cup ALL_AT_ONCE_COMMANDS
                          \cup CLIPBOARD_COMMANDS
            /\ Ended(d) /\ d.cause # "gate") =>
            /\ d.pc = "done" /\ d.exitCode = 0
            /\ d.notes \in {<<"error">>, <<"info">>, <<"warn", "error">>,
                            <<"warn", "info">>}
            /\ fs = fs0 /\ d.syncs = 0 /\ d.acts = <<>> /\ d.items = <<>>

\* the routing table as the claim gives it
RoutingTable(command) ==
    IF command \in {PublishToYandexCom, PublishToYandex, UnpublishFromYandex,
                    UnpublishAllCopy} THEN "individual"
    ELSE IF command \in {FileAddToStream, FileMoveToStream} THEN "batch"
    ELSE IF command \in {ClipboardPublishToCom, ClipboardPublish, ClipboardToStream}
         THEN "clipboard"
    ELSE "unknown"

\* C18: the routing table.  process_command sends every command to the one
\* strategy the table gives for its name, whatever the paths; the three
\* command sets are pairwise disjoint.
C18_RoutingTable ==
    [][/\ ONE_BY_ONE_COMMANDS \cap ALL_AT_ONCE_COMMANDS = {}
       /\ ONE_BY_ONE_COMMANDS \cap CLIPBOARD_COMMANDS = {}
       /\ ALL_AT_ONCE_COMMANDS \cap CLIPBOARD_COMMANDS = {}
       /\ \A p \in Procs :
             disp[p].pc = "ready" /\ disp'[p] # disp[p] =>
                 disp'[p].pc = RoutingTable(disp[p].cmd)]_vars

C18_Witness ==
    /\ disp[1].pc = "unknown"
    /\ disp[1].cmd = FileDelete
    /\ Len(disp[1].paths) = 1

\* the number of entries of a sequence that equal x
RECURSIVE Count(_, _)
Count(seq, x) ==
    IF seq = <<>> THEN 0
    ELSE (IF Head(seq) = x THEN 1 ELSE 0) + Count(Tail(seq), x)

\* C19: one clipboard write per publish dispatch.  A publish dispatch that
\* ended with every item published and its link collected has written the
\* clipboard exactly once and shown exactly one success notification.
C19_OneClipboardWrite ==
    LET d == disp[1]
    IN  (d.cmd \in PublishCommands /\ d.pc = "done" /\ d.paths # <<>>
            /\ d.errors = <<>> /\ Len(d.links) = Len(d.paths)) =>
            /\ d.writes = 1
            /\ Count(d.notes, "info") = 1

C21_NoClipboardContentIsFatal ==
    LET d == disp[1]
    IN  d.cause = "noclip" =>
            /\ d.cmd \in CLIPBOARD_COMMANDS
            /\ d.pc = "exited" /\ d.exitCode = 1
            /\ d.syncs = 0 /\ d.writes = 0
            /\ clip = PriorClip /\ fs = fs0
            /\ Count(d.notes, "info") = 0

C21_Witness ==
    /\ disp[1].cause = "noclip"
    /\ disp[1].cmd = ClipboardPublish
    /\ disp[1].pc = "exited"

\* C22: the exit status by outcome.  A one-by-one dispatch in which every
\* item was recorded as failed ends, after its error notification, with a
\* non-zero exit status; a batch dispatch in which items failed, some or
\* all, ends with exit status 0.
C22_ExitStatusByOutcome ==
    LET d == disp[1]
        n == Len(d.notes)
    IN  /\ (d.cmd \in ONE_BY_ONE_COMMANDS /\ Ended(d) /\ d.paths # <<>>
               /\ Len(d.errors) = Len(d.paths)) =>
               /\ d.exitCode # 0
               /\ n >= 1 /\ d.notes[n] = "error"
        /\ (d.cmd \in ALL_AT_ONCE_COMMANDS /\ Ended(d) /\ d.cause # "gate"
               /\ (d.errors # <<>> \/ d.xerrors # <<>>)) =>
               d.exitCode = 0


\* every item of the dispatch was taken up and none went through
AllItemsFailed(d) ==
    /\ d.paths # <<>>
    /\ Len(d.acts) + (IF d.cmd \in ALL_AT_ONCE_COMMANDS THEN Len(d.errors) ELSE 0)
          = Len(d.paths)
    /\ \A i \in 1..Len(d.acts) : d.acts[i].result # "ok"

\* C23: when the exit status is non-zero.  A dispatch has a non-zero exit
\* status, or has ended before its summary, only when the readiness gate
\* timed out, when a clipboard command found no content, or when every item
\* of the command failed; one failing item among several does neither.
C23_NonZeroExitOnlyWhenFatal ==
    LET d == disp[1]
    IN  (d.exitCode # 0 \/ d.pc \in {"exited", "crashed"}) =>
            \/ d.cause \in {"gate", "noclip"}
            \/ AllItemsFailed(d)

\* C24: one outcome notification per batch dispatch.  The step that ends a
\* batch executor shows exactly one notification: info when no item failed,
\* warn when some items went through and some failed, error when items
\* failed and none went through.
C24_OneBatchOutcomeNote ==
    [][LET d == disp[1]
           e == disp'[1]
           failed == d.xerrors # <<>> \/ d.errors # <<>>
       IN  (d.pc = "batchRun" /\ e.pc = "done") =>
               e.notes = Append(d.notes,
                                IF ~failed THEN "info"
                                ELSE IF d.count > 0 THEN "warn"
                                ELSE "error")]_vars

\* C25: the summary of a one-by-one dispatch.  The step that ends the
\* executor's loop ends the dispatch normally and shows: one info
\* notification when no item failed; two notifications, a summary and then
\* the failure detail of severity error, when some items went through and
\* some failed; one error notification and nothing else when every item
\* failed.
C25_IndividualSummaryNotes ==
    [][LET d == disp[1]
           e == disp'[1]
           k == Len(e.notes) - Len(d.notes)
       IN  (d.pc = "individual" /\ e.pc \in {"done", "crashed"} /\ d.paths # <<>>) =>
               /\ e.pc = "done"
               /\ SubSeq(e.notes, 1, Len(d.notes)) = d.notes
               /\ IF d.errors = <<>>
                  THEN k = 1 /\ e.notes[Len(e.notes)] = "info"
                  ELSE IF d.count > 0
                  THEN k = 2 /\ e.notes[Len(e.notes)] = "error"
                  ELSE k = 1 /\ e.notes[Len(e.notes)] = "error"]_vars

(***************************************************************************)
(* show_notification, call by call (SpecNote): the notifications of one    *)
(* dispatch, each from inside an item's try block, from the summary after  *)
(* the loop, or from show_error_and_exit, over what kdialog can do.        *)
(***************************************************************************)
MaxNotes == 3

\* subprocess.run(['kdialog', ...], check=False, timeout=...): shown; a
\* non-zero status; FileNotFoundError; TimeoutExpired; any other OSError
\* (kdialog found but not executable: PermissionError)
Channels == {"shown", "nonzero", "missing", "timeout", "oserror"}

\* show_notification: the two caught exceptions fall back to a logged
\* warning, then logger.info(message); any other exception leaves the call
ShowNotification(channel) ==
    [raised |-> channel = "oserror",
     warned |-> channel \in {"missing", "timeout"},
     logged |-> channel # "oserror"]

NoteInit ==
    /\ fs = MakeFs({})
    /\ fs0 = fs
    /\ clip = PriorClip
    /\ disp = [p \in Procs |-> ProcIdle]
    /\ unit = [stage |-> "noteItems", calls |-> <<>>, logged |-> 0, warned |-> 0,
               errors |-> 0, exitCode |-> 0]

NoteCalled(u, ctx, channel) ==
    LET r == ShowNotification(channel)
    IN  [u EXCEPT !.calls = Append(@, [ctx |-> ctx, channel |-> channel]),
                  !.logged = IF r.logged THEN @ + 1 ELSE @,
                  !.warned = IF r.warned THEN @ + 1 ELSE @]

\* a notification of an item's handler: an exception is caught by the
\* loop's `except Exception`, which records the item as failed
NoteInItem ==
    /\ unit.stage = "noteItems"
    /\ Len(unit.calls) < MaxNotes
    /\ \E channel \in Channels :
          unit' = IF ShowNotification(channel).raised
                  THEN [NoteCalled(unit, "item", channel) EXCEPT !.errors = @ + 1]
                  ELSE NoteCalled(unit, "item", channel)
    /\ UNCHANGED <<fs, fs0, clip, disp>>

\* a notification after the loop: no handler is around it up to main_impl
NoteInSummary ==
    /\ unit.stage \in {"noteItems", "noteSummary"}
    /\ Len(unit.calls) < MaxNotes
    /\ \E channel \in Channels :
          unit' = IF ShowNotification(channel).raised
                  THEN [NoteCalled(unit, "summary", channel)
                           EXCEPT !.stage = "noteCrashed", !.exitCode = 1]
                  ELSE [NoteCalled(unit, "summary", channel)
                           EXCEPT !.stage = "noteSummary"]
    /\ UNCHANGED <<fs, fs0, clip, disp>>

\* show_error_and_exit after the loop: the notification, then sys.exit(1)
NoteShowErrorAndExit ==
    /\ unit.stage \in {"noteItems", "noteSummary"}
    /\ Len(unit.calls) < MaxNotes
    /\ \E channel \in Channels :
          unit' = IF ShowNotification(channel).raised
                  THEN [NoteCalled(unit, "fatal", channel)
                           EXCEPT !.stage = "noteCrashed", !.exitCode = 1]
                  ELSE [NoteCalled(unit, "fatal", channel)
                           EXCEPT !.stage = "noteExited", !.exitCode = 1]
    /\ UNCHANGED <<fs, fs0, clip, disp>>

\* main_impl returning after the summary
NoteReturn ==
    /\ unit.stage \in {"noteItems", "noteSummary"}
    /\ unit' = [unit EXCEPT !.stage = "noteDone"]
    /\ UNCHANGED <<fs, fs0, clip, disp>>

NoteNext == NoteInItem \/ NoteInSummary \/ NoteShowErrorAndExit \/ NoteReturn

SpecNote == NoteInit /\ [][NoteNext]_vars

\* C26: a failing notification channel never aborts.  Whatever kdialog
\* does, every show_notification call has logged its message and returned:
\* no call made an item fail and none ended the process with an uncaught
\* exception.
C26_NotificationFailureNeverAborts ==
    unit.stage \in {"noteItems", "noteSummary", "noteDone", "noteExited",
                    "noteCrashed"} =>
        /\ unit.stage # "noteCrashed"
        /\ unit.errors = 0
        /\ unit.logged = Len(unit.calls)

(***************************************************************************)
(* Claims about the recorded failures and the retry (Spec).                *)
(***************************************************************************)
IsFailed(a) == a.result = "failed"

\* the input paths of the items that were recorded as failed, in order
FailedPaths(acts) ==
    LET failed == SelectSeq(acts, IsFailed)
    IN  [i \in 1..Len(failed) |-> failed[i].path]

\* C27: failures are keyed by the original path.  The failure entries of an
\* executor are, in order, the input paths of the items it recorded as
\* failed: the path before any rename, never the renamed one.
C27_FailuresKeyedByOriginalPath ==
    LET d == disp[1]
    IN  /\ d.cmd \in ONE_BY_ONE_COMMANDS => d.errors = FailedPaths(d.acts)
        /\ d.cmd \in ALL_AT_ONCE_COMMANDS =>
              /\ d.xerrors = FailedPaths(d.acts)
              /\ \A i \in 1..Len(d.errors) :
                    \E j \in 1..Len(d.paths) : d.errors[i] = d.paths[j]

(***************************************************************************)
(* _get_yandex_status called directly (SpecStatus), over what the status   *)
(* query can do.  A line is a sequence of pieces of text.                  *)
(***************************************************************************)
MaxLineLen == 4

Pieces == {"Status", ":", " ", "idle", "busy"}

LinesUpTo(n) == UNION {[1..k -> Pieces] : k \in 0..n}

\* lines the daemon prints
DaemonLines ==
    {<<"Status", ":", " ", "idle">>, <<"Status", ":", " ", "busy">>, <<"idle">>}

\* the stdout of `yandex-disk status`, split at the line breaks
Stdouts ==
    {<<>>} \cup {<<l>> : l \in LinesUpTo(MaxLineLen)}
           \cup {<<l, m>> : l \in LinesUpTo(MaxLineLen), m \in DaemonLines}
           \cup {<<m, l>> : l \in LinesUpTo(MaxLineLen), m \in DaemonLines}

\* _run_command(['yandex-disk', 'status'], check=False): it returns the
\* output whatever the exit status; a timeout (raised as CalledProcessError);
\* the command is not there (FileNotFoundError); any other OSError of
\* subprocess.run (the command is there but cannot be executed)
Queries ==
    {[kind |-> "returned", stdout |-> out] : out \in Stdouts}
        \cup {[kind |-> k, stdout |-> <<>>] : k \in {"timeout", "missing", "oserror"}}

\* str.lower of one piece
Lower(piece) ==
    IF piece = "Status" THEN "status" ELSE piece

\* 'status:' in line.lower()
HasStatusMarker(line) ==
    \E i \in 1..(Len(line) - 1) : Lower(line[i]) = "status" /\ Lower(line[i + 1]) = ":"

\* str.strip
RECURSIVE Strip(_)
Strip(s) ==
    IF s = <<>> THEN s
    ELSE IF Head(s) = " " THEN Strip(Tail(s))
    ELSE IF s[Len(s)] = " " THEN Strip(SubSeq(s, 1, Len(s) - 1))
    ELSE s

NotStarted == <<"not started">>

\* next((line for line in stdout.split('\n') if ...), ''): the first such line
StatusLine(stdout) ==
    LET hits == {i \in 1..Len(stdout) : HasStatusMarker(stdout[i])}
    IN  IF hits = {} THEN <<>>
        ELSE stdout[CHOOSE i \in hits : \A j \in hits : i <= j]

\* _parse_yandex_status: split(':', -1)[-1].strip() of the status line
ParseYandexStatus(stdout) ==
    LET line == StatusLine(stdout)
    IN  IF RFind(line, ":") # 0 THEN Strip(DropFirst(line, RFind(line, ":")))
        ELSE NotStarted

\* _get_yandex_status: the three caught exceptions give 'not started'; any
\* other exception leaves the call
GetYandexStatus(q) ==
    IF q.kind = "returned" THEN [raised |-> FALSE, status |-> ParseYandexStatus(q.stdout)]
    ELSE IF q.kind \in {"timeout", "missing"} THEN [raised |-> FALSE, status |-> NotStarted]
    ELSE [raised |-> TRUE, status |-> <<>>]

StatusInit ==
    /\ fs = MakeFs({})
    /\ fs0 = fs
    /\ clip = PriorClip
    /\ disp = [p \in Procs |-> ProcIdle]
    /\ \E q \in Queries :
          unit = [stage |-> "statusCall", query |-> q, status |-> <<>>]

StatusReturn ==
    /\ unit.stage = "statusCall"
    /\ LET r == GetYandexStatus(unit.query)
       IN  unit' = [unit EXCEPT !.stage = IF r.raised THEN "statusRaised"
                                         ELSE "statusReturned",
                                !.status = r.status]
    /\ UNCHANGED <<fs, fs0, clip, disp>>

StatusNext == StatusReturn

SpecStatus == StatusInit /\ [][StatusNext]_vars

\* C28: what counts as idle.  A status query gives idle only when it
\* returned an output with a line that contains 'status:' (in any case) and
\* whose text after the last colon, trimmed, is exactly idle; an output
\* without such a line, and every error or timeout of the query, gives
\* 'not started'.
C28_IdleOnlyFromStatusLine ==
    unit.stage \in {"statusReturned", "statusRaised"} =>
        LET q == unit.query
        IN  /\ unit.status = <<"idle">> =>
                  /\ q.kind = "returned"
                  /\ \E i \in 1..Len(q.stdout) :
                        /\ HasStatusMarker(q.stdout[i])
                        /\ Strip(DropFirst(q.stdout[i], RFind(q.stdout[i], ":")))
                              = <<"idle">>
            /\ (q.kind = "returned"
                   /\ \A i \in 1..Len(q.stdout) : ~HasStatusMarker(q.stdout[i])) =>
                  unit.stage = "statusReturned" /\ unit.status = NotStarted
            /\ q.kind # "returned" =>
                  unit.stage = "statusReturned" /\ unit.status = NotStarted

(***************************************************************************)
(* Claims about the polling of the readiness gate (SpecGate).              *)
(***************************************************************************)
\* C29: the polling is bounded and stops at the first idle.  After a first
\* status that is not idle, wait_for_ready makes at most WAIT_TIMEOUT
\* further queries; when the k-th of them is the first to answer idle it
\* has returned after k - 1 sleeps; and once it has returned or given up no
\* further query is made.
C29_PollingBoundedAndShortCircuit ==
    /\ [](unit.stage \in {"gatePoll", "gateReturned", "gateExited", "gateCrashed"} =>
            /\ unit.polls <= WAIT_TIMEOUT
            /\ unit.sleeps <= WAIT_TIMEOUT
            /\ unit.first # "none" => unit.queries = unit.polls + 1
            /\ unit.first = "idle" => unit.polls = 0
            /\ (unit.stage = "gateReturned" /\ unit.first # "idle") =>
                  /\ unit.last = "idle"
                  /\ unit.polls >= 1
                  /\ unit.sleeps = unit.polls - 1
            /\ unit.stage = "gateExited" =>
                  unit.polls = WAIT_TIMEOUT /\ unit.sleeps = WAIT_TIMEOUT)
    /\ [][unit.stage \in {"gateReturned", "gateExited", "gateCrashed"} =>
            unit' = unit]_vars
    /\ [][(unit.stage = "gatePoll" /\ unit'.stage = "gatePoll") =>
            unit.last # "idle" /\ unit'.last # "idle"]_vars

C29_Witness ==
    /\ unit.stage = "gateReturned"
    /\ unit.first = "busy"
    /\ unit.polls = 3
    /\ unit.sleeps = 2
    /\ unit.queries = 4

(***************************************************************************)
(* Claims about the fallback of the batch executors (Spec).                *)
(***************************************************************************)
\* C30: the ENOTDIR fallback.  In every step of a batch executor: when the
\* directory action of the item failed with ENOTDIR, the single-file action
\* was attempted exactly once, and the item was counted as copied or moved
\* exactly when that attempt succeeded; when it failed with another error,
\* no further attempt was made, the item was not counted and it was
\* recorded as failed.
C30_EnotdirRetriedOnce ==
    [][LET d == disp[1]
           e == disp'[1]
           t == e.tries[Len(e.tries)]
           a == e.acts[Len(e.acts)]
       IN  (d.pc = "batchRun" /\ Len(e.tries) = Len(d.tries) + 1) =>
               /\ t.first = "enotdir" =>
                     /\ t.single = 1
                     /\ t.ok <=> e.count = d.count + 1
                     /\ ~t.ok => a.result = "failed" /\ Len(e.xerrors) = Len(d.xerrors) + 1
               /\ t.first = "error" =>
                     /\ t.single = 0
                     /\ e.count = d.count
                     /\ a.result = "failed"
                     /\ Len(e.xerrors) = Len(d.xerrors) + 1
               /\ t.first \notin {"enotdir", "error"} => t.single = 0]_vars

\* a directory whose move failed with ENOTDIR and went through at the retry
C30_Witness ==
    LET d == disp[1]
    IN  /\ d.cmd = FileMoveToStream
        /\ d.pc = "done"
        /\ Len(d.tries) = 1
        /\ d.tries[1].first = "enotdir"
        /\ d.tries[1].single = 1
        /\ d.tries[1].ok
        /\ d.count = 1
        /\ d.xerrors = <<>>

\* a directory whose copy failed with another error and was not tried again
C30_WitnessOtherError ==
    LET d == disp[1]
    IN  /\ d.cmd = FileAddToStream
        /\ d.pc = "done"
        /\ Len(d.tries) = 1
        /\ d.tries[1].first = "error"
        /\ d.tries[1].single = 0
        /\ d.count = 0
        /\ Len(d.xerrors) = 1

(***************************************************************************)
(* The success summary of the batch executors (SpecSummary): the display   *)
(* message built from copied_items / moved_items, called with drawn lists. *)
(* A text is the sequence of its pieces; the two item marks and the path   *)
(* separator are one piece each.                                           *)
(***************************************************************************)
\* items in the list of a drawn success summary
MaxSummaryItems == 6

\* copied_items[:5], len(copied_items) > 5
SummaryCap == 5

MarkFile == "File: "
MarkDirectory == "Directory: "
Sep == "/"
LineBreak == "\n"

NmA == <<"a">>
NmB == <<"b">>
\* a file whose own name holds the text of an item mark
NmMarked == <<MarkFile, "a">>

\* the path as the string the executors hold
RECURSIVE PathText(_)
PathText(p) ==
    IF p = <<>> THEN <<>> ELSE <<Sep>> \o Head(p) \o PathText(Tail(p))

\* f"File: {src_file_path}" / f"Directory: {src_file_path}"
ItemText(kind, p) ==
    <<IF kind = "dir" THEN MarkDirectory ELSE MarkFile>> \o PathText(p)

\* str.replace(mark, ""): every occurrence goes
Replace(text, mark) == SelectSeq(text, LAMBDA c : c # mark)

\* os.path.basename of a string: what follows the last separator
TextBaseName(text) == SubSeq(text, RFind(text, Sep) + 1, Len(text))

\* f"<b>{...}</b>"
Bold(text) == <<"<b>">> \o text \o <<"</b>">>

\* item.replace("File: ", "").replace("Directory: ", ""), then the bolded
\* os.path.basename
DisplayItem(item) ==
    Bold(TextBaseName(Replace(Replace(item, MarkFile), MarkDirectory)))

\* f'... and {remaining_count} more items'
MoreItems(k) == <<"... and ">> \o IntToStr(k) \o <<" more items">>

\* '\n'.join(lines)
RECURSIVE JoinText(_)
JoinText(ls) ==
    IF ls = <<>> THEN <<>>
    ELSE IF Len(ls) = 1 THEN Head(ls)
    ELSE Head(ls) \o <<LineBreak>> \o JoinText(Tail(ls))

\* lines 778-786, 842-850: display_message
DisplayMessage(items) ==
    LET n == Len(items)
    IN  IF n > SummaryCap
        THEN JoinText([i \in 1..SummaryCap |-> DisplayItem(items[i])])
                \o <<LineBreak>> \o MoreItems(n - SummaryCap)
        ELSE JoinText([i \in 1..n |-> DisplayItem(items[i])])

\* what the executors can have in hand: files and a directory, outside the
\* managed tree
SummaryEntries ==
    {[kind |-> "file", path |-> Join(Home, NmA)],
     [kind |-> "dir", path |-> Join(Work, NmB)],
     [kind |-> "file", path |-> Join(Home, NmMarked)]}

SummaryLists ==
    UNION {[1..n -> SummaryEntries] : n \in 1..MaxSummaryItems}

SummaryInit ==
    /\ fs = MakeFs({})
    /\ fs0 = fs
    /\ clip = PriorClip
    /\ disp = [p \in Procs |-> ProcIdle]
    /\ \E done \in SummaryLists :
          unit = [stage |-> "summaryCall", done |-> done, verb |-> "none",
                  message |-> <<>>]

SummaryShown(verb) ==
    /\ unit.stage = "summaryCall"
    /\ LET items == [i \in 1..Len(unit.done) |->
                        ItemText(unit.done[i].kind, unit.done[i].path)]
       IN  unit' = [unit EXCEPT !.stage = "summaryShown", !.verb = verb,
                                !.message = DisplayMessage(items)]
    /\ UNCHANGED <<fs, fs0, clip, disp>>

\* _handle_batch_add_to_stream, after its loop
SummaryCopied == SummaryShown("Copied")

\* _handle_batch_move_to_stream, after its loop
SummaryMoved == SummaryShown("Moved")

SummaryNext == SummaryCopied \/ SummaryMoved

SpecSummary == SummaryInit /\ [][SummaryNext]_vars

\* the lines the summary is to show: the first min(n, 5) items as bolded base
\* names in input order, then the remainder line when n > 5
ShownLines(done) ==
    LET n == Len(done)
        k == IF n > SummaryCap THEN SummaryCap ELSE n
    IN  [i \in 1..k |-> Bold(BaseName(done[i].path))]
           \o (IF n > SummaryCap THEN <<MoreItems(n - SummaryCap)>> ELSE <<>>)

\* C31: a success summary of n items shows min(n, 5) items, each as a bolded
\* base name, in input order; when n > 5 the first 5 are followed by
\* '... and n-5 more items', and when n <= 5 there is no remainder line.
C31_SummaryShowsCappedBaseNames ==
    unit.stage = "summaryShown" =>
        unit.message = JoinText(ShownLines(unit.done))

\* the same for lists in which no name holds the text of an item mark
C31_HoldsForPlainNames ==
    (/\ unit.stage = "summaryShown"
     /\ \A i \in 1..Len(unit.done) : BaseName(unit.done[i].path) # NmMarked)
        => unit.message = JoinText(ShownLines(unit.done))

(***************************************************************************)
(* unpublish_copies called directly (SpecCopies), iteration by iteration,  *)
(* on directories that hold the base file and some of its numbered copies. *)
(***************************************************************************)
\* the highest index of a numbered copy that can be present
MaxCopies == 3

\* Constants.DEFAULT_INDEX
DEFAULT_INDEX == 0

\* index += Constants.INCREMENT_STEP, taken twice
NextIndexSkipping(index) == index + 2

\* index += Constants.INCREMENT_STEP
NextIndex(index) == index + 1

\* lines 506-512, 520: current_name for an index above DEFAULT_INDEX
CopyName(file, name, index) ==
    LET stem == IF StartsWithDot(name) THEN name ELSE PathStem(PathLibName(file))
        ext == IF StartsWithDot(name) THEN <<>> ELSE PathSuffix(PathLibName(file))
    IN  Suffixed(stem, index, ext)

\* lines 517-522: current_file
CurrentFile(dir, file, name, index) ==
    IF index = DEFAULT_INDEX THEN file ELSE Join(dir, CopyName(file, name, index))

\* the arguments _handle_unpublish_all_command passes: the directory, the
\* base file in it and its name
CopiesCalls ==
    {[dir |-> d, file |-> Join(d, n), name |-> n] :
        d \in {StreamDir, YaDisk}, n \in {NmDoc, NmEnv}}

CopiesPresent(c) ==
    SUBSET ({c.file} \cup {Join(c.dir, CopyName(c.file, c.name, k)) : k \in 1..MaxCopies})

CopiesInit ==
    /\ clip = PriorClip
    /\ disp = [p \in Procs |-> ProcIdle]
    /\ \E c \in CopiesCalls :
          /\ \E S \in CopiesPresent(c) : fs = MakeFs(S)
          /\ unit = [stage |-> "copiesLoop", dir |-> c.dir, file |-> c.file,
                     name |-> c.name, index |-> DEFAULT_INDEX, calls |-> <<>>,
                     results |-> <<>>]
    /\ fs0 = fs

\* one iteration of `while True`: the existence test, then unpublish_file,
\* which returns the daemon's text or 'Error: ...', or raises what
\* _run_command does not convert
CopiesIterate ==
    /\ unit.stage = "copiesLoop"
    /\ LET cur == CurrentFile(unit.dir, unit.file, unit.name, unit.index)
       IN  IF ~Exists(fs, cur)
           THEN unit' = [unit EXCEPT !.stage = "copiesReturned"]
           ELSE \E daemon \in UnpublishOutcomes :
                   unit' = [unit EXCEPT
                      !.calls = Append(@, cur),
                      !.results = IF daemon = "raised" THEN @ ELSE Append(@, daemon),
                      !.index = IF daemon = "raised" THEN @ ELSE NextIndex(@),
                      !.stage = IF daemon = "raised" THEN "copiesRaised" ELSE @]
    /\ UNCHANGED <<fs, fs0, clip, disp>>

CopiesNext == CopiesIterate

SpecCopies == CopiesInit /\ [][CopiesNext]_vars

\* the files unpublish_copies is to visit: the base file, then name_1,
\* name_2, ... up to and not including the first one that does not exist
RECURSIVE CopiesRun(_, _, _, _, _)
CopiesRun(f, dir, file, name, k) ==
    IF k > MaxCopies + 1 \/ ~Exists(f, Join(dir, CopyName(file, name, k))) THEN <<>>
    ELSE <<Join(dir, CopyName(file, name, k))>> \o CopiesRun(f, dir, file, name, k + 1)

CopiesToVisit(f, dir, file, name) ==
    IF ~Exists(f, file) THEN <<>> ELSE <<file>> \o CopiesRun(f, dir, file, name, 1)

C32_WitnessNoBase ==
    /\ unit.stage = "copiesReturned"
    /\ unit.calls = <<>>
    /\ Exists(fs, Join(unit.dir, CopyName(unit.file, unit.name, 1)))

(***************************************************************************)
(* One given path from main_impl's filter to the resolver (SpecParse):     *)
(* the paths a caller can hand over include the empty string, and paths    *)
(* that end in a separator.                                                *)
(***************************************************************************)
\* Constants.get_service_menu_filenames(), one piece
MenuFile == "ydpublish-python.desktop"
NmMenu == <<MenuFile>>

\* fp.endswith(menu_file)
EndsWithMenuFile(p) ==
    LET name == BaseName(p)
    IN  name # <<>> /\ name[Len(name)] = MenuFile

\* the filter of main_impl: `fp and not any(fp.endswith(...))`
KeptByFilter(p) == p # <<>> /\ ~EndsWithMenuFile(p)

\* the path with a separator at its end
WithSep(p) == Join(p, <<>>)

ParseCandidates ==
    {Join(Home, NmDoc), Join(StreamDir, NmDoc), Join(YaDisk, NmDoc),
     Join(Home, NmDir), Join(StreamDir, NmDir), Join(Home, NmMenu)}

ParseGiven ==
    {<<>>, Join(Home, NmDoc), WithSep(Join(Home, NmDoc)), Join(Home, NmDir),
     WithSep(Join(Home, NmDir)), WithSep(Join(StreamDir, NmDir)),
     Join(Home, NmMenu)}

ParseInit ==
    /\ fs \in {MakeFs(S) : S \in SUBSET ParseCandidates}
    /\ fs0 = fs
    /\ clip = PriorClip
    /\ disp = [p \in Procs |-> ProcIdle]
    /\ \E given \in ParseGiven, command \in UnitCommands :
          unit = [stage |-> "given", given |-> given, command |-> command,
                  generated |-> FALSE, genName |-> <<>>, raised |-> FALSE,
                  changed |-> FALSE]

\* lines 652-657: the path does not reach process_command
ParseFilteredOut ==
    /\ unit.stage = "given"
    /\ ~KeptByFilter(unit.given)
    /\ unit' = [unit EXCEPT !.stage = "parseFiltered"]
    /\ UNCHANGED <<fs, fs0, clip, disp>>

\* the first statements both handlers run on a path: _parse_file_info, then
\* _rename_file_if_needed, which calls _generate_unique_file_name with
\* file_name when _should_rename_file says so
ParseResolve ==
    /\ unit.stage = "given"
    /\ KeptByFilter(unit.given)
    /\ LET info == ParseFileInfo(unit.given)
           r == RenameFileIfNeeded(fs, info.path, info.name, info.dir,
                                   info.outside, unit.command)
       IN  /\ fs' = r.fs
           /\ unit' = [unit EXCEPT !.stage = "parseResolved",
                                   !.generated = r.changed,
                                   !.genName = IF r.changed THEN info.name ELSE <<>>,
                                   !.raised = ~r.ok,
                                   !.changed = r.fs # fs]
    /\ UNCHANGED <<fs0, clip, disp>>

ParseNext == ParseFilteredOut \/ ParseResolve

SpecParse == ParseInit /\ [][ParseNext]_vars

\* C33: the unique-name generator is never invoked with an empty candidate
\* name: a given path whose base name is empty (the empty path, or a path
\* ending in '/') is rejected before conflict resolution and never causes a
\* rename.
C33_EmptyNameNeverGenerated ==
    unit.stage \in {"parseFiltered", "parseResolved"} =>
        /\ unit.generated => unit.genName # <<>>
        /\ BaseName(unit.given) = <<>> => ~unit.generated /\ fs = fs0

\* what holds of such paths: the empty path is dropped by the filter, and a
\* path ending in '/' never changes the file system
C33_EmptyNameNeverRenames ==
    unit.stage \in {"parseFiltered", "parseResolved"} =>
        /\ unit.given = <<>> => unit.stage = "parseFiltered"
        /\ BaseName(unit.given) = <<>> => fs = fs0

\* the dispatches C34 is about: a batch dispatch that has ended, given two
\* files of one base name from two directories, the first of which went
\* into the stream directory
TwoOfOneName(d) ==
    /\ d.cmd \in ALL_AT_ONCE_COMMANDS
    /\ d.pc = "done"
    /\ Len(d.paths) = 2
    /\ IsFile(fs0, d.paths[1]) /\ IsFile(fs0, d.paths[2])
    /\ BaseName(d.paths[1]) = BaseName(d.paths[2])
    /\ DirName(d.paths[1]) # DirName(d.paths[2])
    /\ \E i \in 1..Len(d.acts) :
          d.acts[i].path = d.paths[1] /\ d.acts[i].result = "ok"

\* the item given as path ended as a failure of the resolve pass or of the
\* executor
RecordedAsFailed(d, path) ==
    \/ \E i \in 1..Len(d.errors) : d.errors[i] = path
    \/ \E i \in 1..Len(d.acts) : d.acts[i].path = path /\ d.acts[i].result = "failed"

\* the content that was at path when the dispatch started is directly in the
\* stream directory at q
HoldsContentOf(q, path) ==
    /\ q \in DOMAIN fs
    /\ DirName(q) = StreamDir
    /\ fs[q].data = fs0[path].data

\* C34: in one batch copy or move dispatch given two files of the same base
\* name from different directories, the second item never overwrites the file
\* the first item placed in the stream directory: at the end the stream
\* directory holds both contents under distinct names, or the second item is
\* recorded as failed.
C34_SecondKeepsFirst ==
    LET d == disp[1]
    IN  TwoOfOneName(d) =>
            \/ RecordedAsFailed(d, d.paths[2])
            \/ \E q1, q2 \in DOMAIN fs :
                  /\ q1 # q2
                  /\ HoldsContentOf(q1, d.paths[1])
                  /\ HoldsContentOf(q2, d.paths[2])

\* the same for the move command alone
C34_MoveSecondKeepsFirst ==
    LET d == disp[1]
    IN  (TwoOfOneName(d) /\ d.cmd = FileMoveToStream) =>
            \/ RecordedAsFailed(d, d.paths[2])
            \/ \E q1, q2 \in DOMAIN fs :
                  /\ q1 # q2
                  /\ HoldsContentOf(q1, d.paths[1])
                  /\ HoldsContentOf(q2, d.paths[2])

\* a move dispatch of two such files that has ended
C34_MoveWitness ==
    TwoOfOneName(disp[1]) /\ disp[1].cmd = FileMoveToStream

\* the entries of the source directory of path, new since the dispatch
\* started, that hold the content path had
LeftRenamed(path) ==
    {q \in DOMAIN fs :
        /\ q \notin DOMAIN fs0
        /\ DirName(q) = DirName(path)
        /\ fs[q].data = fs0[path].data}

\* the content path had is in the stream directory and no longer at path
MovedIntoStream(path) ==
    /\ path \notin DOMAIN fs
    /\ \E q \in DOMAIN fs :
          IsPrefix(StreamDir, q) /\ q # StreamDir /\ fs[q].data = fs0[path].data

\* C35: when a dispatch has terminated, by normal return or by the designed
\* error exit, no input file is left under a generated '_N' name in its
\* source directory: every input file is at its original path or has been
\* moved into the stream directory.
C35_NoInputLeftRenamed ==
    LET d == disp[1]
    IN  d.pc \in {"done", "exited"} =>
            \A i \in 1..Len(d.paths) :
                d.paths[i] \in DOMAIN fs0 =>
                    /\ d.paths[i] \notin DOMAIN fs => LeftRenamed(d.paths[i]) = {}
                    /\ Unchanged(d.paths[i]) \/ MovedIntoStream(d.paths[i])

\* a file directly in the stream directory or the synced root whose name no
\* other entry of the two directories has: it is its only same-named entry
OwnOnlyConflict(f, path) ==
    /\ IsFile(f, path)
    /\ DirName(path) \in {StreamDir, YaDisk}
    /\ \A dir \in {StreamDir, YaDisk} :
          Exists(f, Join(dir, BaseName(path))) => Join(dir, BaseName(path)) = path

\* C36: copy-into-stream or move-into-stream dispatched on a file that already
\* resides directly in the stream directory or the synced root, the file being
\* its only same-named entry, leaves the file at its original path with its
\* original name and content.
C36_FileInTreeStaysPut ==
    LET d == disp[1]
    IN  (/\ d.cmd \in ALL_AT_ONCE_COMMANDS
         /\ d.pc = "done"
         /\ Len(d.paths) = 1
         /\ OwnOnlyConflict(fs0, d.paths[1])) => Unchanged(d.paths[1])

\* the one case of it that holds: the copy of a file of the synced root
C36_CopyFromRootStaysPut ==
    LET d == disp[1]
    IN  (/\ d.cmd = FileAddToStream
         /\ d.pc = "done"
         /\ Len(d.paths) = 1
         /\ OwnOnlyConflict(fs0, d.paths[1])
         /\ DirName(d.paths[1]) = YaDisk) => Unchanged(d.paths[1])

(***************************************************************************)
(* The resolver and its closure with another invocation at work between    *)
(* the rename and the restore (SpecRestore).                               *)
(***************************************************************************)
\* the content another invocation writes
OtherData == <<<<"other">>>>

\* between the rename and rename_back, another invocation puts a file at the
\* original path, which the rename left free
OtherCreatesOriginal ==
    /\ unit.stage = "resolved"
    /\ unit.changed /\ ~unit.raised
    /\ unit.calls = 0
    /\ unit.orig \notin DOMAIN fs
    /\ fs' = [q \in DOMAIN fs \cup {unit.orig} |->
                IF q = unit.orig THEN [kind |-> "file", data |-> OtherData]
                ELSE fs[q]]
    /\ UNCHANGED <<fs0, clip, disp, unit>>

RestoreNext == UnitResolve \/ OtherCreatesOriginal \/ UnitRestore

SpecRestore == UnitInit /\ [][RestoreNext]_vars

\* C37: the restore function never replaces a file that exists at the
\* original path at the moment it runs: a call of rename_back made while a
\* file is at the original path leaves that file with its content.
C37_RestoreNeverReplaces ==
    [][(/\ unit.stage = "resolved"
        /\ unit'.calls = unit.calls + 1
        /\ IsFile(fs, unit.orig))
          => (unit.orig \in DOMAIN fs' /\ fs'[unit.orig] = fs[unit.orig])]_vars

\* C38: for every command and every list of input paths, process_command ends
\* by returning normally or through the designed exit, never with another
\* uncaught exception; a batch command given an empty list ends with one
\* warning notification, no file operation and no sync.
C38_NoUncaughtException ==
    LET d == disp[1]
    IN  /\ d.pc # "crashed"
        /\ (d.cmd \in ALL_AT_ONCE_COMMANDS /\ d.paths = <<>> /\ Ended(d)
               /\ d.cause # "gate") =>
              d.notes \in {<<"warn">>, <<"warn", "warn">>} /\ d.syncs = 0 /\ fs = fs0

\* the items of a dispatch whose action went through
Succeeded(d) == {i \in 1..Len(d.acts) : d.acts[i].result = "ok"}

\* C39: in a one-by-one publish dispatch that has returned, the number of
\* links collected and written in the final clipboard write equals the number
\* of items whose publish succeeded, also when reading the clipboard back
\* fails or returns nothing.
C39_OneLinkPerPublishedItem ==
    LET d == disp[1]
        n == Cardinality(Succeeded(d))
    IN  (d.cmd \in PublishCommands /\ d.pc = "done") =>
            /\ Len(d.links) = n
            /\ n >= 1 => Len(clip) = 2 * n - 1

\* what holds: never more links than published items, and one link for each
\* when every read-back gave the link
C39_NoMoreLinksThanPublished ==
    LET d == disp[1]
    IN  (d.cmd \in PublishCommands /\ d.pc = "done") =>
            Len(d.links) <= Cardinality(Succeeded(d))

(***************************************************************************)
(* Termination (SpecTerm): one dispatch on a small tree, and the three     *)
(* loops of the program taken iteration by iteration: the readiness poll   *)
(* of wait_for_ready, the index probe of _generate_unique_file_name and    *)
(* the loop of unpublish_copies.  Every step that can be taken is taken    *)
(* in the end (weak fairness): each external call returns.                 *)
(***************************************************************************)
ProbeCandidates ==
    {Join(d, n) : d \in {StreamDir, YaDisk, Home}, n \in {NmDoc1, NmDoc2}}

ProbeInit ==
    /\ fs \in {MakeFs(S) : S \in BoundedSubsets(ProbeCandidates, MaxFiles)}
    /\ fs0 = fs
    /\ clip = PriorClip
    /\ disp = [p \in Procs |-> ProcIdle]
    /\ unit = [stage |-> "probeLoop", path |-> Join(Home, NmDoc),
               index |-> DEFAULT_INDEX, name |-> <<>>]

\* the iteration of the probe with the index left as it is
ProbeStepNoAdvance ==
    /\ unit.stage = "probeLoop"
    /\ LET name == BaseName(unit.path)
           k == IF unit.index = DEFAULT_INDEX THEN NextIndex(unit.index)
                ELSE unit.index
           new == Suffixed(NamePart(name), k, ExtPart(name))
       IN  unit' = IF NameTaken(fs, DirName(unit.path), new)
                   THEN [unit EXCEPT !.index = k]
                   ELSE [unit EXCEPT !.index = k, !.name = new,
                                     !.stage = "probeReturned"]
    /\ UNCHANGED <<fs, fs0, clip, disp>>

\* lines 609-619: one iteration of `while True` of _generate_unique_file_name
ProbeStep ==
    /\ unit.stage = "probeLoop"
    /\ LET name == BaseName(unit.path)
           k == NextIndex(unit.index)
           new == Suffixed(NamePart(name), k, ExtPart(name))
       IN  unit' = IF NameTaken(fs, DirName(unit.path), new)
                   THEN [unit EXCEPT !.index = k]
                   ELSE [unit EXCEPT !.index = k, !.name = new,
                                     !.stage = "probeReturned"]
    /\ UNCHANGED <<fs, fs0, clip, disp>>

\* the tree of the dispatch: a file with a same-named entry in the stream
\* directory, and a directory
TermFiles == {Join(StreamDir, NmDoc), Join(Home, NmDoc), Join(Home, NmDir)}

TermDispatchInit ==
    /\ fs = MakeFs(TermFiles)
    /\ fs0 = fs
    /\ clip = PriorClip
    /\ \E command \in AllCommands, ps \in Selections(fs, MaxItems) :
          /\ command \notin ONE_BY_ONE_COMMANDS \cup ALL_AT_ONCE_COMMANDS =>
                Len(ps) <= 1
          /\ disp = [p \in Procs |-> IF p = 1 THEN ProcStart(command, ps) ELSE ProcIdle]
    /\ unit = UnitOff

TermInit == TermDispatchInit \/ GateInit \/ ProbeInit \/ CopiesInit

TermNext == Next \/ GateNext \/ ProbeStep \/ CopiesNext

\* each call of a loop harness returns or raises: the iteration that can be
\* made is made
SpecTerm ==
    TermInit /\ [][TermNext]_vars /\ WF_vars(GateNext \/ ProbeStep \/ CopiesNext)

\* the dispatch, or the loop called on its own, has ended
Terminated ==
    IF unit = UnitOff THEN Ended(disp[1])
    ELSE unit.stage \in {"gateReturned", "gateExited", "gateCrashed",
                         "probeReturned", "copiesReturned", "copiesRaised"}

\* the ends the claim lists: the return, with or without errors, and the
\* fatal readiness timeout (and, outside its assumption, a call that raised)
TerminatedAsListed ==
    IF unit = UnitOff
    THEN \/ disp[1].pc = "done"
         \/ disp[1].pc = "exited" /\ disp[1].cause = "gate"
         \/ disp[1].pc = "crashed" /\ disp[1].cause = "oserror"
    ELSE Terminated

\* the steps a dispatch can still take at most: two for the gate and the
\* routing, two for each path not yet handled, one for the report
StepsLeft(d) ==
    LET n == Len(d.paths)
    IN  IF Ended(d) \/ d.pc = "idle" THEN 0
        ELSE IF d.pc = "start" THEN 2 * n + 6
        ELSE IF d.pc = "ready" THEN 2 * n + 5
        ELSE IF d.pc = "individual" THEN 2 + 2 * (n + 1 - d.idx)
        ELSE IF d.pc = "individualAct" THEN 1 + 2 * (n + 1 - d.idx)
        ELSE IF d.pc = "batch" THEN (n + 3) + (n + 1 - d.idx)
        ELSE IF d.pc = "batchRun" THEN 2 + (Len(d.items) + 1 - d.idx)
        ELSE 1

\* the loops end, and no step of a dispatch leaves as many steps to take as
\* there were
LoopsEndAndDispatchAdvances ==
    /\ unit # UnitOff => <>Terminated
    /\ [][unit = UnitOff => StepsLeft(disp'[1]) < StepsLeft(disp[1])]_vars

====
